---- MODULE Spec2Model ----
(***************************************************************************)
(* Model of the map-execution engine runMapa (navegadorPlaywright.js, the  *)
(* latest variant, src/src/server.js lines 498-951): pre-flight            *)
(* validation, session lifecycle, the step interpreter with its fill+press *)
(* combo and result-probe group, the download step with its response       *)
(* interception and capture strategies, the network activity tracker       *)
(* (inflightCount / quiet), and the helpers ensurePdfName, isPdfBuffer     *)
(* and robustClick.                                                        *)
(*                                                                         *)
(* Step indexes are 1-based here (the source's i is 0-based).              *)
(* A missing string property (undefined or '') is the empty string "".     *)
(***************************************************************************)
EXTENDS Integers, Sequences, FiniteSets, TLC

VARIABLES
    \* ---- inputs of one runMapa call (immutable during the call) ----
    url,            \* "" when missing
    loginInfo,      \* [usernameValue, passwordValue], "" when missing
    dados,          \* data record: key -> [kind, items]
    mapa,           \* [operacao, login, logout, steps]
    exists,         \* the set of paths for which fs.existsSync is true
    \* ---- runMapa's locals and position ----
    pc,             \* position of the call
    i,              \* the step loop's index
    j,              \* the probe group's index
    resultFound,    \* "null" | "true" | "false"
    downloadedPath, \* 0 = null, n = the path saved by the download step n
    caughtError,    \* the error kept by the catch block
    outcome,        \* what the caller observes: the result or the thrown error
    \* ---- the browser session, and the trace of what was done on it ----
    launched,       \* number of launchPersistentContext calls that succeeded
    closeCalls,     \* number of context.close() calls
    trace,          \* sequence of [ev, idx]: the interactions, in order
    \* ---- network activity tracker ----
    now,            \* Date.now(), in ms
    req,            \* each request: "new" | "live" | "finished" | "failed"
    inflight,       \* the Map request -> timestamp (-1: not in the map)
    qpc,            \* position of the quiet() call: "idle" | "sleeping" | "returned"
    qdeadline,      \* quiet's deadline argument
    qstart,         \* quiet's local start
    lastChange,     \* quiet's local lastChange
    lastCount,      \* quiet's local lastCount
    qobs,           \* observations of the quiet() call, for the properties
    \* ---- the download step's locals and the context's hooks ----
    downloadedOnce, \* the step's local flag
    routes,         \* number of interception rules installed on the context
    pageListeners,  \* number of 'page' (popup) listeners installed on the context
    popups,         \* number of popups the step's listener has pushed
    pidx,           \* position of the for-of loop over popups
    closedPopups,   \* number of popups on which the step has called close()
    routed,         \* the response routeHandler has just handled, and what it did
    \* ---- one application of a helper function ----
    nameIn,         \* ensurePdfName's arguments [filename, resUrl]
    nameOut,        \* its result: [kind, name]
    clickIn,        \* the page under robustClick: [attached, direct, chain]
    clickOut,       \* its result: [kind, clicked]
    \* ---- the naming of one captured download ----
    capture,        \* [desired, suggested, url]: options.filename, the name the
                    \* browser suggests, the URL the download came from
    savedName,      \* the file name it is saved under: [kind, name]
    \* ---- one application of openMenuAncestorsFor ----
    menuIn,         \* its arguments and page: [chain, maxHops, failAt]
    menuOut,        \* its result: [kind, examined, visited]
    routeIn,       \* one intercepted request and what its route calls do
    routeOut,      \* the route calls routeHandler made for it
    ins,           \* the session of one inserir call
    handleIn,      \* the target of the extended click and its ancestors
    handleOut,     \* the handles it disposed, returned and used
    \* ---- the caller of runMapa ----
    consultarOut    \* what consultar gives its caller: [kind, result, err]

inputVars   == <<url, loginInfo, dados, mapa, exists>>
runVars     == <<pc, i, j, resultFound, downloadedPath, caughtError, outcome,
                 launched, closeCalls, trace>>
trackerVars == <<now, req, inflight, qpc, qdeadline, qstart, lastChange, lastCount, qobs>>
dlVars      == <<downloadedOnce, routes, pageListeners, popups, pidx, closedPopups, routed>>
fnVars      == <<nameIn, nameOut, clickIn, clickOut, capture, savedName, consultarOut, menuIn, menuOut, routeIn, routeOut, ins, handleIn, handleOut>>
vars        == <<inputVars, runVars, trackerVars, dlVars, fnVars>>

----------------------------------------------------------------------------
(* Bounds of the model *)

MaxSteps == 2       \* longest step list of the execution specification
MaxPreSteps == 2    \* longest step list of the pre-flight specification
NReq == 2           \* number of distinct requests
MaxIdle == 3        \* idle periods before quiet() is called
MaxPopups == 1      \* popups opened during one download step
MaxPieces == 2      \* pieces of a file name given to ensurePdfName
MaxChain == 2       \* elements from the click target up to the root
MaxDepth == 7       \* ancestors above the target of openMenuAncestorsFor

(* Program constants *)

StabilityMs == 300        \* quiet: "estavel o bastante"
PollMs == 40              \* quiet: setTimeout(r, 40)
ComboQuietMs == 800       \* quiet(800) of the fill+press combo
MaxQuietMs == 1200        \* options.maxQuietMs default, the deadline of quiet()
LongPollCutoffMs == 2000  \* options.longPollCutoffMs default

\* A deadline set by the caller through options.maxQuietMs
ShortQuietMs == 10 * PollMs

\* Length of one idle period of the model: two of them reach the cutoff
IdleMs == LongPollCutoffMs \div 2

----------------------------------------------------------------------------
(* Data model *)

St(a, s, k, rs) == [action |-> a, selector |-> s, key |-> k, resultSelector |-> rs]

\* A step whose meta block carries expectedUrl (eu) and networkTriggered (nt)
StM(a, s, k, eu, nt) ==
    [action |-> a, selector |-> s, key |-> k, resultSelector |-> FALSE,
     expectedUrl |-> eu, networkTriggered |-> nt]

Absent   == [kind |-> "absent", items |-> <<>>]      \* key not in dados
Undef    == [kind |-> "undefined", items |-> <<>>]   \* key in dados, value undefined
Str(s)   == [kind |-> "string", items |-> <<s>>]
Arr(fs)  == [kind |-> "array", items |-> fs]

Keys == {"k1", "k2"}
Files == {"f1", "f2"}

Err(kind, keys, files, at) == [kind |-> kind, keys |-> keys, files |-> files, at |-> at]
NoErr == Err("none", <<>>, <<>>, 0)

NoLogin == [username |-> "", password |-> "", submit |-> "", present |-> FALSE]
Login(u, p, s) == [username |-> u, password |-> p, submit |-> s, present |-> TRUE]

----------------------------------------------------------------------------
(* Pre-flight validation, server.js 582-623 *)

\* allowOptional with no operation treated as a partial update
allowOptionalNever == FALSE

\* Line 586
allowOptional == mapa.operacao = "editar"

\* needKey asking a key of the fill steps only
needKeyFillOnly(s) == s.action = "fill"

\* Line 602
needKey(s) == s.action \in {"fill", "upload", "select"}

\* `s.key in dados`
KeyIn(k, d) == d[k].kind # "absent"

\* Array.isArray(dados[key]) ? dados[key] : [dados[key]]; an undefined
\* element is written "<undefined>".
FileList(v) ==
    IF v.kind = "array" THEN v.items
    ELSE IF v.kind = "string" THEN v.items
    ELSE <<"<undefined>">>

\* typeof f !== 'string' || !fs.existsSync(f)
FileMissing(f, ex) == f = "<undefined>" \/ f \notin ex

RECURSIVE MissingOfFirst(_, _, _)
\* MissingOf stopping at the first missing file of the list
MissingOfFirst(k, list, ex) ==
    IF list = <<>> THEN <<>>
    ELSE IF FileMissing(Head(list), ex) THEN <<[key |-> k, path |-> Head(list)]>>
    ELSE MissingOfFirst(k, Tail(list), ex)

RECURSIVE MissingOf(_, _, _)
\* list.forEach(f => { if (...) absentFiles.push({ key, path: f }) })
MissingOf(k, list, ex) ==
    IF list = <<>> THEN <<>>
    ELSE (IF FileMissing(Head(list), ex) THEN <<[key |-> k, path |-> Head(list)]>> ELSE <<>>)
         \o MissingOf(k, Tail(list), ex)

RECURSIVE Dedup(_)
\* [...new Set(absentKeys)]: first occurrences, in order
Dedup(s) ==
    IF s = <<>> THEN <<>>
    ELSE LET r == Dedup(SubSeq(s, 1, Len(s) - 1))
             x == s[Len(s)]
         IN IF \E n \in 1..Len(r) : r[n] = x THEN r ELSE Append(r, x)

RECURSIVE ScanSteps(_, _, _, _, _, _)
\* The for loop of lines 600-617 from step n on, with the lists collected so
\* far: the error it throws, or NoErr with the two lists.
ScanSteps(ss, n, d, ex, absentKeys, absentFiles) ==
    IF n > Len(ss) THEN [err |-> NoErr, absentKeys |-> absentKeys, absentFiles |-> absentFiles]
    ELSE LET s == ss[n] IN
         IF s.selector = "" \/ s.action = ""
         THEN [err |-> Err("invalidStep", <<>>, <<>>, n), absentKeys |-> absentKeys, absentFiles |-> absentFiles]
         ELSE IF ~needKey(s) THEN ScanSteps(ss, n + 1, d, ex, absentKeys, absentFiles)
         ELSE IF s.key = ""
         THEN [err |-> Err("stepNeedsKey", <<>>, <<>>, n), absentKeys |-> absentKeys, absentFiles |-> absentFiles]
         ELSE IF ~KeyIn(s.key, d)
         THEN ScanSteps(ss, n + 1, d, ex,
                        IF ~allowOptional THEN Append(absentKeys, s.key) ELSE absentKeys,
                        absentFiles)
         ELSE IF s.action = "upload"
         THEN ScanSteps(ss, n + 1, d, ex, absentKeys,
                        absentFiles \o MissingOf(s.key, FileList(d[s.key]), ex))
         ELSE ScanSteps(ss, n + 1, d, ex, absentKeys, absentFiles)

\* AfterScan without the check of absentKeys
AfterScanNoKeys(r) ==
    IF r.err # NoErr THEN r.err
    ELSE IF Len(r.absentFiles) > 0 THEN Err("absentFiles", <<>>, r.absentFiles, 0)
    ELSE NoErr

\* AfterScan with the two checks in the other order
AfterScanFilesFirst(r) ==
    IF r.err # NoErr THEN r.err
    ELSE IF Len(r.absentFiles) > 0 THEN Err("absentFiles", <<>>, r.absentFiles, 0)
    ELSE IF Len(r.absentKeys) > 0 THEN Err("absentKeys", Dedup(r.absentKeys), <<>>, 0)
    ELSE NoErr

\* Lines 618-623: the error raised after the loop, keys first.
AfterScan(r) ==
    IF r.err # NoErr THEN r.err
    ELSE IF Len(r.absentKeys) > 0 THEN Err("absentKeys", Dedup(r.absentKeys), <<>>, 0)
    ELSE IF Len(r.absentFiles) > 0 THEN Err("absentFiles", <<>>, r.absentFiles, 0)
    ELSE NoErr

\* ValidateLogin without the check of loginInfo
ValidateLoginSelectorsOnly ==
    IF ~mapa.login.present THEN NoErr
    ELSE IF mapa.login.username = "" \/ mapa.login.password = "" \/ mapa.login.submit = ""
    THEN Err("loginIncomplete", <<>>, <<>>, 0)
    ELSE NoErr

\* Lines 588-595
ValidateLogin ==
    IF ~mapa.login.present THEN NoErr
    ELSE IF mapa.login.username = "" \/ mapa.login.password = "" \/ mapa.login.submit = ""
    THEN Err("loginIncomplete", <<>>, <<>>, 0)
    ELSE IF loginInfo.usernameValue = "" \/ loginInfo.passwordValue = ""
    THEN Err("loginInfoMissing", <<>>, <<>>, 0)
    ELSE NoErr

\* Lines 582-623: the error runMapa throws before opening a session, or NoErr.
PreFlight ==
    IF url = "" THEN Err("urlMissing", <<>>, <<>>, 0)
    ELSE IF ValidateLogin # NoErr THEN ValidateLogin
    ELSE AfterScan(ScanSteps(mapa.steps, 1, dados, exists, <<>>, <<>>))

----------------------------------------------------------------------------
(* The run: session, login, step loop, finally.  server.js 625-949 *)

Ev(e, n) == [ev |-> e, idx |-> n]

steps == mapa.steps

StepErr(n) == Err("stepFailed", <<>>, <<>>, n)

\* dados[key] === undefined (lines 751, 779, 790)
ValUndefined(k) == dados[k].kind \in {"absent", "undefined"}

\* meta.resultSelector === true (lines 727, 731)
IsProbe(s) == s.resultSelector

\* `meta = {}` (722): a flag of the step's meta block is set
HasMeta(s, f) == f \in DOMAIN s /\ s[f]

\* Lines 768-773, 797-802, 808-813, 819-824: what follows the interaction of
\* step n: the wait for a response of meta.expectedUrl, whose timeout is
\* swallowed, then quiet() if meta.networkTriggered.
MetaWaits(n) ==
    (IF HasMeta(steps[n], "expectedUrl") THEN <<Ev("waitForResponse", n)>> ELSE <<>>)
    \o (IF HasMeta(steps[n], "networkTriggered") THEN <<Ev("quiet", n)>> ELSE <<>>)

\* Lines 760-763: what follows typeHuman: the race of the wait for the
\* suggestion list to hide with quiet(800), its rejection swallowed.
ComboWaits(n) == <<Ev("race", n)>>

\* combo without the lookahead
comboNever(n) == FALSE

\* const combo = next && next.action === 'press' && next.selector === selector (749)
combo(n) ==
    /\ n + 1 <= Len(steps)
    /\ steps[n + 1].action = "press"
    /\ steps[n + 1].selector = steps[n].selector

\* Fail with the error kept and the loop going on with the next step
FailKeepsGoing(e, ev) ==
    /\ caughtError' = e
    /\ i' = i + 1
    /\ trace' = Append(trace, ev)
    /\ UNCHANGED <<pc, j, resultFound, downloadedPath, outcome, launched, closeCalls>>

\* A step's handler threw: the catch block keeps the error (938-940).
Fail(e, ev) ==
    /\ caughtError' = e
    /\ pc' = "finally"
    /\ trace' = Append(trace, ev)
    /\ UNCHANGED <<i, j, resultFound, downloadedPath, outcome, launched, closeCalls>>

\* Advance passing over one more step than the handler asked for
AdvanceSkipping(n, evs) ==
    /\ i' = i + n + 1
    /\ trace' = trace \o evs
    /\ UNCHANGED <<pc, j, resultFound, downloadedPath, caughtError, outcome, launched, closeCalls>>

\* A step's handler completed, having done evs: the loop moves on by n
\* positions.
Advance(n, evs) ==
    /\ i' = i + n
    /\ trace' = trace \o evs
    /\ UNCHANGED <<pc, j, resultFound, downloadedPath, caughtError, outcome, launched, closeCalls>>

Throw(e) ==
    /\ pc' = "thrown"
    /\ outcome' = [kind |-> "thrown", resultFound |-> "null", downloadedPath |-> 0, err |-> e]

\* Lines 582-623: runMapa validates before it opens anything.
Validate ==
    /\ pc = "start"
    /\ IF PreFlight # NoErr
       THEN Throw(PreFlight)
       ELSE pc' = "launch" /\ UNCHANGED outcome
    /\ UNCHANGED <<i, j, resultFound, downloadedPath, caughtError, launched, closeCalls, trace>>
    /\ UNCHANGED <<inputVars, trackerVars, dlVars, fnVars>>

\* Lines 626-634: chromium.launchPersistentContext; a failure propagates.
LaunchContext ==
    /\ pc = "launch"
    /\ \E ok \in BOOLEAN :
         IF ok
         THEN /\ launched' = launched + 1
              /\ pc' = "newPage"
              /\ trace' = Append(trace, Ev("launch", 0))
              /\ UNCHANGED outcome
         ELSE /\ Throw(Err("launchFailed", <<>>, <<>>, 0))
              /\ UNCHANGED <<launched, trace>>
    /\ UNCHANGED <<i, j, resultFound, downloadedPath, caughtError, closeCalls>>
    /\ UNCHANGED <<inputVars, trackerVars, dlVars, fnVars>>

\* Line 635: context.newPage() stands before the try block, so its failure
\* leaves runMapa at once.
NewPage ==
    /\ pc = "newPage"
    /\ \E ok \in BOOLEAN :
         IF ok
         THEN pc' = "goto" /\ UNCHANGED outcome
         ELSE Throw(Err("newPageFailed", <<>>, <<>>, 0))
    /\ UNCHANGED <<i, j, resultFound, downloadedPath, caughtError, launched, closeCalls, trace>>
    /\ UNCHANGED <<inputVars, trackerVars, dlVars, fnVars>>

\* Line 708: page.goto inside the try block.
Goto ==
    /\ pc = "goto"
    /\ \E ok \in BOOLEAN :
         IF ok
         THEN /\ pc' = IF mapa.login.present THEN "login" ELSE "steps"
              /\ trace' = Append(trace, Ev("goto", 0))
              /\ UNCHANGED caughtError
         ELSE /\ pc' = "finally"
              /\ caughtError' = Err("gotoFailed", <<>>, <<>>, 0)
              /\ trace' = Append(trace, Ev("goto", 0))
    /\ UNCHANGED <<i, j, resultFound, downloadedPath, outcome, launched, closeCalls>>
    /\ UNCHANGED <<inputVars, trackerVars, dlVars, fnVars>>

\* Lines 711-717: fill username, fill password, robustClick(submit), quiet().
\* r names the first interaction that throws; quiet() never throws.
DoLogin ==
    /\ pc = "login"
    /\ \E r \in {"ok", "username", "password", "submit"} :
         LET done == CASE r = "username" -> <<Ev("login.username", 0)>>
                       [] r = "password" -> <<Ev("login.username", 0), Ev("login.password", 0)>>
                       [] OTHER -> <<Ev("login.username", 0), Ev("login.password", 0),
                                     Ev("login.submit", 0)>>
         IN /\ trace' = trace \o done
            /\ IF r = "ok"
               THEN pc' = "steps" /\ UNCHANGED caughtError
               ELSE pc' = "finally" /\ caughtError' = Err("loginFailed", <<r>>, <<>>, 0)
    /\ UNCHANGED <<i, j, resultFound, downloadedPath, outcome, launched, closeCalls>>
    /\ UNCHANGED <<inputVars, trackerVars, dlVars, fnVars>>

AtStep(a) ==
    /\ pc = "steps"
    /\ i <= Len(steps)
    /\ ~IsProbe(steps[i])
    /\ steps[i].action = a

\* Line 720: the loop condition fails, the try block ends.
LoopEnd ==
    /\ pc = "steps"
    /\ i > Len(steps)
    /\ pc' = "finally"
    /\ UNCHANGED <<i, j, resultFound, downloadedPath, caughtError, outcome, launched, closeCalls, trace>>
    /\ UNCHANGED <<inputVars, trackerVars, dlVars, fnVars>>

\* Lines 727-729: a step flagged resultSelector starts the probe group at j = i.
EnterProbe ==
    /\ pc = "steps"
    /\ i <= Len(steps)
    /\ IsProbe(steps[i])
    /\ pc' = "probe"
    /\ j' = i
    /\ UNCHANGED <<i, resultFound, downloadedPath, caughtError, outcome, launched, closeCalls, trace>>
    /\ UNCHANGED <<inputVars, trackerVars, dlVars, fnVars>>

\* Lines 729-743: one iteration of the inner loop; att is whether the locator
\* attaches within resultWaitMs.  The outer loop is left after the group.
Probe ==
    /\ pc = "probe"
    /\ IF j <= Len(steps) /\ IsProbe(steps[j])
       THEN \E att \in BOOLEAN :
              IF att
              THEN /\ resultFound' = "true"
                   /\ pc' = "finally"
                   /\ trace' = Append(trace, Ev("probe.attached", j))
                   /\ UNCHANGED j
              ELSE /\ resultFound' = "false"
                   /\ j' = j + 1
                   /\ trace' = Append(trace, Ev("probe.timeout", j))
                   /\ UNCHANGED pc
       ELSE /\ pc' = "finally"
            /\ UNCHANGED <<j, resultFound, trace>>
    /\ UNCHANGED <<i, downloadedPath, caughtError, outcome, launched, closeCalls>>
    /\ UNCHANGED <<inputVars, trackerVars, dlVars, fnVars>>

\* Lines 747-776.  typeHuman (696-702) is the one combined interaction of the
\* combo; the waits after either path are best-effort and never throw.  The
\* combo path reads of the meta blocks only the key to press.
StepFill ==
    /\ AtStep("fill")
    /\ IF ValUndefined(steps[i].key)
       THEN IF allowOptional
            THEN Advance(IF combo(i) THEN 2 ELSE 1, <<Ev("skip", i)>>)
            ELSE Fail(Err("dadosAusente", <<steps[i].key>>, <<>>, i), Ev("missing", i))
       ELSE IF combo(i)
            THEN \E ok \in BOOLEAN :
                   IF ok THEN Advance(2, <<Ev("typeHuman", i)>> \o ComboWaits(i))
                   ELSE Fail(StepErr(i), Ev("typeHuman", i))
            ELSE \E ok \in BOOLEAN :
                   IF ok THEN Advance(1, <<Ev("fill", i)>> \o MetaWaits(i))
                   ELSE Fail(StepErr(i), Ev("fill", i))
    /\ UNCHANGED <<inputVars, trackerVars, dlVars, fnVars>>

\* Lines 778-787
StepUpload ==
    /\ AtStep("upload")
    /\ IF ValUndefined(steps[i].key)
       THEN IF allowOptional
            THEN Advance(1, <<Ev("skip", i)>>)
            ELSE Fail(Err("dadosAusente", <<steps[i].key>>, <<>>, i), Ev("missing", i))
       ELSE \E ok \in BOOLEAN :
              IF ok THEN Advance(1, <<Ev("upload", i)>>) ELSE Fail(StepErr(i), Ev("upload", i))
    /\ UNCHANGED <<inputVars, trackerVars, dlVars, fnVars>>

\* Lines 789-804
StepSelect ==
    /\ AtStep("select")
    /\ IF ValUndefined(steps[i].key)
       THEN IF allowOptional
            THEN Advance(1, <<Ev("skip", i)>>)
            ELSE Fail(Err("dadosAusente", <<steps[i].key>>, <<>>, i), Ev("missing", i))
       ELSE \E ok \in BOOLEAN :
              IF ok THEN Advance(1, <<Ev("select", i)>> \o MetaWaits(i))
              ELSE Fail(StepErr(i), Ev("select", i))
    /\ UNCHANGED <<inputVars, trackerVars, dlVars, fnVars>>

\* Lines 806-815: robustClick, then the best-effort waits.
StepClick ==
    /\ AtStep("click")
    /\ \E ok \in BOOLEAN :
         IF ok THEN Advance(1, <<Ev("click", i)>> \o MetaWaits(i))
         ELSE Fail(StepErr(i), Ev("click", i))
    /\ UNCHANGED <<inputVars, trackerVars, dlVars, fnVars>>

\* Lines 817-826
StepPress ==
    /\ AtStep("press")
    /\ \E ok \in BOOLEAN :
         IF ok THEN Advance(1, <<Ev("press", i)>> \o MetaWaits(i))
         ELSE Fail(StepErr(i), Ev("press", i))
    /\ UNCHANGED <<inputVars, trackerVars, dlVars, fnVars>>

\* ---- The download step, lines 828-931 ----

\* The signature of a PDF file, '%PDF-'
Magic == <<"%", "P", "D", "F", "-">>

\* The response bodies of the model, as sequences of bytes
Bodies ==
    { <<>>, <<"%", "P", "D", "F">>, Magic \o <<"1">>, <<"%", "P", "D", "F", "_", "1">> }

\* The content-type headers of the model
ContentTypes ==
    {"text/html", "Application/PDF", "application/pdf; charset=binary"}

\* Line 843: (headers['content-type'] || ...).toLowerCase(), on ContentTypes
toLowerCase(ct) == IF ct = "Application/PDF" THEN "application/pdf" ELSE ct

\* Line 845: ct.includes('application/pdf'), on the lower-cased ContentTypes
includesPdf(ct) == ct \in {"application/pdf", "application/pdf; charset=binary"}

\* isPdfBuffer accepting every body
isPdfBufferAny(buf) == TRUE

\* Lines 525-529
isPdfBuffer(buf) ==
    IF Len(buf) < 5 THEN FALSE ELSE SubSeq(buf, 1, 5) = Magic

\* Lines 835-862: what routeHandler does with one intercepted request whose
\* original response is resp; fetched is whether route.fetch() resolved.
routeHandler(done, fetched, resp) ==
    IF done THEN "continue"
    ELSE IF ~fetched THEN "continue"
    ELSE IF includesPdf(toLowerCase(resp.ct)) /\ isPdfBuffer(resp.body) THEN "fulfill"
    ELSE "continue"

NoRouted == [ct |-> "", body |-> <<>>, act |-> "none"]

\* The guards of lines 886 and 914 taken as always open
SkipRestNever(done) == FALSE

\* Lines 886, 914: `if (!downloadedOnce)` skips the strategy once a download
\* was captured.
SkipRest(done) == done

\* Lines 881, 900, 920: downloadedPath = downloadedPath || saveAs || ...;
\* saveAs is a non-empty string, whether or not dl.saveAs(saveAs) succeeded.
KeepFirst(old, saveAs) == IF old # 0 THEN old ELSE saveAs

\* One capture strategy at: the download event arrived (r says whether
\* saveAs succeeded) or the wait timed out (r = "none").
Strategy(at, r) ==
    IF r = "none"
    THEN /\ trace' = Append(trace, Ev(at, i))
         /\ UNCHANGED <<downloadedPath, downloadedOnce>>
    ELSE /\ trace' = trace \o <<Ev(at, i), Ev(IF r = "saved" THEN "dl.saved" ELSE "dl.saveFailed", i)>>
         /\ downloadedPath' = KeepFirst(downloadedPath, i)
         /\ downloadedOnce' = (KeepFirst(downloadedPath, i) # 0)

\* StepDownload going on to the click with nothing installed
StepDownloadNoHooks ==
    /\ AtStep("download")
    /\ pc' = "dl.click"
    /\ popups' = 0
    /\ pidx' = 0
    /\ closedPopups' = 0
    /\ downloadedOnce' = FALSE
    /\ UNCHANGED <<i, j, resultFound, downloadedPath, caughtError, outcome,
                   launched, closeCalls, trace>>
    /\ UNCHANGED <<routes, pageListeners, routed>>
    /\ UNCHANGED <<inputVars, trackerVars, fnVars>>

\* Lines 828-870: the rule and the popup listener are installed;
\* context.route may throw.
StepDownload ==
    /\ AtStep("download")
    /\ \E ok \in BOOLEAN :
         IF ok
         THEN /\ pc' = "dl.click"
              /\ routes' = routes + 1
              /\ pageListeners' = pageListeners + 1
              /\ popups' = 0
              /\ pidx' = 0
              /\ closedPopups' = 0
              /\ downloadedOnce' = FALSE
              /\ UNCHANGED <<i, j, resultFound, downloadedPath, caughtError, outcome,
                             launched, closeCalls, trace>>
         ELSE /\ Fail(StepErr(i), Ev("download", i))
              /\ UNCHANGED <<routes, pageListeners, popups, pidx, closedPopups, downloadedOnce>>
    /\ UNCHANGED routed
    /\ UNCHANGED <<inputVars, trackerVars, fnVars>>

\* Line 873: the triggering click; its error leaves the step at once, for the
\* catch block of line 938.
DownloadClick ==
    /\ pc = "dl.click"
    /\ \E ok \in BOOLEAN :
         IF ok
         THEN /\ pc' = "dl.main"
              /\ trace' = Append(trace, Ev("download", i))
              /\ UNCHANGED <<i, j, resultFound, downloadedPath, caughtError, outcome,
                             launched, closeCalls>>
         ELSE Fail(StepErr(i), Ev("download", i))
    /\ UNCHANGED <<inputVars, trackerVars, dlVars, fnVars>>

\* Line 869: onPage pushes a popup while the listener is installed.
PopupOpens ==
    /\ pc \in {"dl.click", "dl.main", "dl.popups"}
    /\ pageListeners > 0
    /\ popups < MaxPopups
    /\ popups' = popups + 1
    /\ routed' = NoRouted
    /\ UNCHANGED <<downloadedOnce, routes, pageListeners, pidx, closedPopups>>
    /\ UNCHANGED <<inputVars, runVars, trackerVars, fnVars>>

\* Lines 835-862: a request is intercepted while the rule is installed, and
\* handled.  routed keeps the response until the next step of the model.
RouteHandler ==
    /\ pc \in {"dl.main", "dl.popups", "dl.late", "dl.uninstall"}
    /\ routes > 0
    /\ routed = NoRouted
    /\ \E c \in ContentTypes, b \in Bodies, fetched \in BOOLEAN :
         routed' = [ct |-> c, body |-> b,
                    act |-> routeHandler(downloadedOnce, fetched, [ct |-> c, body |-> b])]
    /\ UNCHANGED <<downloadedOnce, routes, pageListeners, popups, pidx, closedPopups>>
    /\ UNCHANGED <<inputVars, runVars, trackerVars, fnVars>>

\* Lines 876-888: strategy 1, the download event of the main page.
DownloadMain ==
    /\ pc = "dl.main"
    /\ \E r \in {"none", "saved", "unsaved"} : Strategy("dl.main", r)
    /\ pc' = IF SkipRest(downloadedOnce') THEN "dl.uninstall" ELSE "dl.popups"
    /\ pidx' = 1
    /\ UNCHANGED <<i, j, resultFound, caughtError, outcome, launched, closeCalls>>
    /\ routed' = NoRouted
    /\ UNCHANGED <<routes, pageListeners, popups, closedPopups>>
    /\ UNCHANGED <<inputVars, trackerVars, fnVars>>

\* Lines 890-911: strategy 2, one iteration of the loop over the popups, or
\* its end; a capture breaks out of the loop, to line 914.  The popup of the
\* iteration is closed (902, 908), captured or not.
DownloadPopup ==
    /\ pc = "dl.popups"
    /\ IF pidx > popups
       THEN /\ pc' = IF SkipRest(downloadedOnce) THEN "dl.uninstall" ELSE "dl.late"
            /\ UNCHANGED <<trace, downloadedPath, downloadedOnce, pidx, closedPopups>>
       ELSE \E r \in {"none", "saved", "unsaved"} :
              /\ Strategy("dl.popup", r)
              /\ closedPopups' = closedPopups + 1
              /\ IF r = "none"
                 THEN pidx' = pidx + 1 /\ UNCHANGED pc
                 ELSE /\ pc' = IF SkipRest(downloadedOnce') THEN "dl.uninstall" ELSE "dl.late"
                      /\ UNCHANGED pidx
    /\ UNCHANGED <<i, j, resultFound, caughtError, outcome, launched, closeCalls>>
    /\ routed' = NoRouted
    /\ UNCHANGED <<routes, pageListeners, popups>>
    /\ UNCHANGED <<inputVars, trackerVars, fnVars>>

\* Strategy 3 raising an error when no download event arrives
DownloadLateThrows ==
    /\ pc = "dl.late"
    /\ \E r \in {"none", "saved", "unsaved"} :
         IF r = "none"
         THEN /\ Fail(StepErr(i), Ev("dl.late", i))
              /\ UNCHANGED downloadedOnce
         ELSE /\ Strategy("dl.late", r)
              /\ pc' = "dl.uninstall"
              /\ UNCHANGED <<i, j, resultFound, caughtError, outcome, launched, closeCalls>>
    /\ routed' = NoRouted
    /\ UNCHANGED <<routes, pageListeners, popups, pidx, closedPopups>>
    /\ UNCHANGED <<inputVars, trackerVars, fnVars>>

\* Lines 914-923: strategy 3, a late download event of the main page.
DownloadLate ==
    /\ pc = "dl.late"
    /\ \E r \in {"none", "saved", "unsaved"} : Strategy("dl.late", r)
    /\ pc' = "dl.uninstall"
    /\ UNCHANGED <<i, j, resultFound, caughtError, outcome, launched, closeCalls>>
    /\ routed' = NoRouted
    /\ UNCHANGED <<routes, pageListeners, popups, pidx, closedPopups>>
    /\ UNCHANGED <<inputVars, trackerVars, fnVars>>

\* Lines 926-930: the rule and the listener are removed, the loop moves on;
\* the locals of the case block and routeHandler, its closure, are gone.
DownloadUninstall ==
    /\ pc = "dl.uninstall"
    /\ routes' = routes - 1
    /\ pageListeners' = pageListeners - 1
    /\ pc' = "steps"
    /\ i' = i + 1
    /\ UNCHANGED <<j, resultFound, downloadedPath, caughtError, outcome, launched,
                   closeCalls, trace>>
    /\ routed' = NoRouted
    /\ downloadedOnce' = FALSE
    /\ popups' = 0
    /\ pidx' = 0
    /\ closedPopups' = 0
    /\ UNCHANGED <<inputVars, trackerVars, fnVars>>

\* Lines 933-934
StepDefault ==
    /\ pc = "steps"
    /\ i <= Len(steps)
    /\ ~IsProbe(steps[i])
    /\ steps[i].action \notin {"fill", "upload", "select", "click", "press", "download"}
    /\ Fail(Err("unsupportedAction", <<steps[i].action>>, <<>>, i), Ev("unsupported", i))
    /\ UNCHANGED <<inputVars, trackerVars, dlVars, fnVars>>

\* The finally block with the logout kept to the runs that did not fail
FinallyLogoutOnSuccessOnly ==
    /\ pc = "finally"
    /\ pc' = "close"
    /\ IF mapa.logout # "" /\ caughtError = NoErr
       THEN \E ok \in BOOLEAN : trace' = Append(trace, Ev(IF ok THEN "logout" ELSE "logout.failed", 0))
       ELSE UNCHANGED trace
    /\ UNCHANGED <<i, j, resultFound, downloadedPath, caughtError, outcome, launched, closeCalls>>
    /\ UNCHANGED <<inputVars, trackerVars, dlVars, fnVars>>

\* The finally block with the failure of the logout kept as the run's error
FinallyLogoutPropagates ==
    /\ pc = "finally"
    /\ pc' = "close"
    /\ IF mapa.logout # ""
       THEN \E ok \in BOOLEAN :
              /\ trace' = Append(trace, Ev(IF ok THEN "logout" ELSE "logout.failed", 0))
              /\ caughtError' = IF ok \/ caughtError # NoErr THEN caughtError
                                ELSE Err("logoutFailed", <<>>, <<>>, 0)
       ELSE UNCHANGED <<trace, caughtError>>
    /\ UNCHANGED <<i, j, resultFound, downloadedPath, outcome, launched, closeCalls>>
    /\ UNCHANGED <<inputVars, trackerVars, dlVars, fnVars>>

\* Lines 941-944: the logout click is attempted when the map declares one; a
\* failure of robustClick is swallowed.
FinallyLogout ==
    /\ pc = "finally"
    /\ pc' = "close"
    /\ IF mapa.logout # ""
       THEN \E ok \in BOOLEAN : trace' = Append(trace, Ev(IF ok THEN "logout" ELSE "logout.failed", 0))
       ELSE UNCHANGED trace
    /\ UNCHANGED <<i, j, resultFound, downloadedPath, caughtError, outcome, launched, closeCalls>>
    /\ UNCHANGED <<inputVars, trackerVars, dlVars, fnVars>>

\* Lines 666-668, 945: context.close(); its failure is swallowed.
CloseAll ==
    /\ pc = "close"
    /\ pc' = "finish"
    /\ closeCalls' = closeCalls + 1
    /\ trace' = Append(trace, Ev("close", 0))
    /\ UNCHANGED <<i, j, resultFound, downloadedPath, caughtError, outcome, launched>>
    /\ UNCHANGED <<inputVars, trackerVars, dlVars, fnVars>>

\* The return with resultFound coerced to a boolean
FinishCoerced ==
    /\ pc = "finish"
    /\ IF caughtError # NoErr
       THEN Throw(caughtError)
       ELSE /\ pc' = "returned"
            /\ outcome' = [kind |-> "returned",
                           resultFound |-> IF resultFound = "true" THEN "true" ELSE "false",
                           downloadedPath |-> IF mapa.operacao = "baixar" THEN downloadedPath ELSE 0,
                           err |-> NoErr]
    /\ UNCHANGED <<i, j, resultFound, downloadedPath, caughtError, launched, closeCalls, trace>>
    /\ UNCHANGED <<inputVars, trackerVars, dlVars, fnVars>>

\* The return with downloadedPath given for every operation
FinishAnyOperation ==
    /\ pc = "finish"
    /\ IF caughtError # NoErr
       THEN Throw(caughtError)
       ELSE /\ pc' = "returned"
            /\ outcome' = [kind |-> "returned", resultFound |-> resultFound,
                           downloadedPath |-> downloadedPath, err |-> NoErr]
    /\ UNCHANGED <<i, j, resultFound, downloadedPath, caughtError, launched, closeCalls, trace>>
    /\ UNCHANGED <<inputVars, trackerVars, dlVars, fnVars>>

\* Lines 947-948
Finish ==
    /\ pc = "finish"
    /\ IF caughtError # NoErr
       THEN Throw(caughtError)
       ELSE /\ pc' = "returned"
            /\ outcome' = [kind |-> "returned", resultFound |-> resultFound,
                           downloadedPath |-> IF mapa.operacao = "baixar" THEN downloadedPath ELSE 0,
                           err |-> NoErr]
    /\ UNCHANGED <<i, j, resultFound, downloadedPath, caughtError, launched, closeCalls, trace>>
    /\ UNCHANGED <<inputVars, trackerVars, dlVars, fnVars>>

----------------------------------------------------------------------------
(* Network activity tracker, server.js 640-665 *)

Reqs == 1..NReq

\* r.resourceType(): the model's requests are of the three kinds in turn.
ResourceType(r) ==
    IF r % 3 = 1 THEN "xhr" ELSE IF r % 3 = 2 THEN "fetch" ELSE "document"

\* Line 641
isXhr(r) == ResourceType(r) \in {"xhr", "fetch"}

\* Line 647: context.on(['requestfinished', 'requestfailed'], handler).  The
\* emitter keeps listeners under the property key of the event name, and an
\* array's key is its elements joined by commas: the handler is registered
\* for one event of that name.
DoneHandlerEvents == {"requestfinished,requestfailed"}

\* The listeners of line 647 run for the emitted event `name`.
OnRequestDone(name, r, inf) ==
    IF name \in DoneHandlerEvents /\ isXhr(r) THEN [inf EXCEPT ![r] = -1] ELSE inf

\* inflightCount without the deletion of old entries
PurgedNone(inf, t) == inf

\* Line 653: entries older than the cutoff are deleted at time t.
Purged(inf, t) ==
    [r \in Reqs |-> IF inf[r] >= 0 /\ t - inf[r] > LongPollCutoffMs THEN -1 ELSE inf[r]]

\* Line 654: inflight.size
Size(inf) == Cardinality({r \in Reqs : inf[r] >= 0})

\* Lines 643-645: the 'request' event.
RequestStart(r) ==
    /\ qpc \in {"idle", "sleeping"}
    /\ req[r] = "new"
    /\ req' = [req EXCEPT ![r] = "live"]
    /\ inflight' = IF isXhr(r) THEN [inflight EXCEPT ![r] = now] ELSE inflight
    /\ UNCHANGED <<now, qpc, qdeadline, qstart, lastChange, lastCount, qobs>>
    /\ UNCHANGED <<inputVars, runVars, dlVars, fnVars>>

\* The 'requestfinished' event.
RequestFinished(r) ==
    /\ qpc \in {"idle", "sleeping"}
    /\ req[r] = "live"
    /\ req' = [req EXCEPT ![r] = "finished"]
    /\ inflight' = OnRequestDone("requestfinished", r, inflight)
    /\ UNCHANGED <<now, qpc, qdeadline, qstart, lastChange, lastCount, qobs>>
    /\ UNCHANGED <<inputVars, runVars, dlVars, fnVars>>

\* The 'requestfailed' event.
RequestFailed(r) ==
    /\ qpc \in {"idle", "sleeping"}
    /\ req[r] = "live"
    /\ req' = [req EXCEPT ![r] = "failed"]
    /\ inflight' = OnRequestDone("requestfailed", r, inflight)
    /\ UNCHANGED <<now, qpc, qdeadline, qstart, lastChange, lastCount, qobs>>
    /\ UNCHANGED <<inputVars, runVars, dlVars, fnVars>>

\* Time passes while nothing of the tracker runs.
IdleAdvance ==
    /\ qpc = "idle"
    /\ now < MaxIdle * IdleMs
    /\ now' = now + IdleMs
    /\ UNCHANGED <<req, inflight, qpc, qdeadline, qstart, lastChange, lastCount, qobs>>
    /\ UNCHANGED <<inputVars, runVars, dlVars, fnVars>>

\* The loop of quiet() without the return on a count that stopped changing
QuietLoopNoStable(t, start, deadline, inf, lch, lc, ob) ==
    LET p == Purged(inf, t)
        c == Size(p)
        seen == [ob EXCEPT !.obsSince = IF c = ob.obsCount THEN ob.obsSince ELSE t,
                           !.obsCount = c]
    IN IF ~(t - start < deadline)
       THEN /\ qpc' = "returned"
            /\ inflight' = inf
            /\ lastChange' = lch
            /\ lastCount' = lc
            /\ qobs' = [ob EXCEPT !.why = "deadline"]
       ELSE IF c = 0
       THEN /\ qpc' = "returned"
            /\ inflight' = p
            /\ lastChange' = lch
            /\ lastCount' = lc
            /\ qobs' = [seen EXCEPT !.why = "zero"]
       ELSE /\ inflight' = p
            /\ lastChange' = IF c # lc THEN t ELSE lch
            /\ lastCount' = c
            /\ qpc' = "sleeping"
            /\ qobs' = [seen EXCEPT !.sleeps = ob.sleeps + 1]

\* The loop of quiet() rejecting, instead of returning, once the deadline has elapsed
QuietLoopRaises(t, start, deadline, inf, lch, lc, ob) ==
    LET p == Purged(inf, t)
        c == Size(p)
        seen == [ob EXCEPT !.obsSince = IF c = ob.obsCount THEN ob.obsSince ELSE t,
                           !.obsCount = c]
    IN IF ~(t - start < deadline)
       THEN /\ qpc' = "raised"
            /\ inflight' = inf
            /\ lastChange' = lch
            /\ lastCount' = lc
            /\ qobs' = [ob EXCEPT !.why = "deadline"]
       ELSE IF c = 0
       THEN /\ qpc' = "returned"
            /\ inflight' = p
            /\ lastChange' = lch
            /\ lastCount' = lc
            /\ qobs' = [seen EXCEPT !.why = "zero"]
       ELSE LET lch2 == IF c # lc THEN t ELSE lch
            IN /\ inflight' = p
               /\ lastChange' = lch2
               /\ lastCount' = c
               /\ IF t - lch2 >= StabilityMs
                  THEN qpc' = "returned" /\ qobs' = [seen EXCEPT !.why = "stable"]
                  ELSE qpc' = "sleeping" /\ qobs' = [seen EXCEPT !.sleeps = ob.sleeps + 1]

\* Lines 658-664: the loop of quiet() from its condition to the next await or
\* return, at time t, with the locals given.  ob are the observations so far.
QuietLoop(t, start, deadline, inf, lch, lc, ob) ==
    LET p == Purged(inf, t)
        c == Size(p)
        seen == [ob EXCEPT !.obsSince = IF c = ob.obsCount THEN ob.obsSince ELSE t,
                           !.obsCount = c]
    IN IF ~(t - start < deadline)
       THEN /\ qpc' = "returned"
            /\ inflight' = inf
            /\ lastChange' = lch
            /\ lastCount' = lc
            /\ qobs' = [ob EXCEPT !.why = "deadline"]
       ELSE IF c = 0
       THEN /\ qpc' = "returned"
            /\ inflight' = p
            /\ lastChange' = lch
            /\ lastCount' = lc
            /\ qobs' = [seen EXCEPT !.why = "zero"]
       ELSE LET lch2 == IF c # lc THEN t ELSE lch
            IN /\ inflight' = p
               /\ lastChange' = lch2
               /\ lastCount' = c
               /\ IF t - lch2 >= StabilityMs
                  THEN qpc' = "returned" /\ qobs' = [seen EXCEPT !.why = "stable"]
                  ELSE qpc' = "sleeping" /\ qobs' = [seen EXCEPT !.sleeps = ob.sleeps + 1]

\* Line 657 and the first pass of the loop: quiet(deadline) up to its first
\* await or its return.
QuietCall(deadline) ==
    /\ qpc = "idle"
    /\ LET p == Purged(inflight, now)
           ob == [why |-> "", sleeps |-> 0,
                  staleAtCall |-> /\ Size(inflight) > 0
                                  /\ \A r \in Reqs : inflight[r] >= 0 => now - inflight[r] > LongPollCutoffMs,
                  obsSince |-> now, obsCount |-> Size(p)]
       IN QuietLoop(now, now, deadline, p, now, Size(p), ob)
    /\ qstart' = now
    /\ qdeadline' = deadline
    /\ UNCHANGED <<now, req>>
    /\ UNCHANGED <<inputVars, runVars, dlVars, fnVars>>

\* Line 663 and the next pass: the timer fires PollMs later, the loop goes on.
QuietWake ==
    /\ qpc = "sleeping"
    /\ now' = now + PollMs
    /\ QuietLoop(now + PollMs, qstart, qdeadline, inflight, lastChange, lastCount, qobs)
    /\ UNCHANGED <<qstart, qdeadline, req>>
    /\ UNCHANGED <<inputVars, runVars, dlVars, fnVars>>

----------------------------------------------------------------------------
(* ensurePdfName, server.js 509-523.  A string is a sequence of characters. *)

DotPdf == <<".", "p", "d", "f">>

DocumentPdf == <<"d", "o", "c", "u", "m", "e", "n", "t">> \o DotPdf

\* A URL text: what precedes its '?', the values of the query parameters that
\* ensurePdfName reads ('' when absent), and whether `new URL` accepts it.
Url(ok, before, params) == [valid |-> ok, noQuery |-> before, qs |-> params]

NoParams == [q \in {"filename", "fileName", "download"} |-> <<>>]

\* The text is the empty string
UrlIsEmpty(u) == u.noQuery = <<>> /\ u.qs = NoParams

\* Line 513: qs.get('filename') || qs.get('fileName') || qs.get('download') || ''
FromQS(u) ==
    IF u.qs["filename"] # <<>> THEN u.qs["filename"]
    ELSE IF u.qs["fileName"] # <<>> THEN u.qs["fileName"]
    ELSE u.qs["download"]

RECURSIVE LastSegment(_)
\* Line 518: noQuery.split('/').pop()
LastSegment(s) ==
    IF s = <<>> THEN <<>>
    ELSE IF s[Len(s)] = "/" THEN <<>>
    ELSE Append(LastSegment(SubSeq(s, 1, Len(s) - 1)), s[Len(s)])

IsQuote(c) == c \in {"\"", "'"}

IsSpace(c) == c \in {" ", "\t", "\n"}

\* name.replace(/["']/g, '') removing the double quotes only
replaceQuotesDoubleOnly(s) == SelectSeq(s, LAMBDA c : c # "\"")

\* Line 520: name.replace(/["']/g, '')
replaceQuotes(s) == SelectSeq(s, LAMBDA c : ~IsQuote(c))

RECURSIVE trim(_)
\* Line 520: .trim()
trim(s) ==
    IF s = <<>> THEN <<>>
    ELSE IF IsSpace(Head(s)) THEN trim(Tail(s))
    ELSE IF IsSpace(s[Len(s)]) THEN trim(SubSeq(s, 1, Len(s) - 1))
    ELSE s

\* The lower-case form of a character of the model
LowerChar(c) ==
    IF c = "P" THEN "p" ELSE IF c = "D" THEN "d" ELSE IF c = "F" THEN "f" ELSE c

\* Line 521: /\.pdf$/i.test(name)
testPdf(s) ==
    /\ Len(s) >= 4
    /\ [k \in 1..4 |-> LowerChar(s[Len(s) - 4 + k])] = DotPdf

\* Lines 509-523.  The result is the name returned, or the error of `new URL`.
ensurePdfName(filename, resUrl) ==
    LET name1 == filename
        useUrl == name1 = <<>> /\ ~UrlIsEmpty(resUrl)
        name2 == IF useUrl /\ FromQS(resUrl) # <<>> THEN FromQS(resUrl) ELSE name1
        seg == LastSegment(resUrl.noQuery)
        name3 == IF name2 # <<>> THEN name2
                 ELSE IF seg # <<>> THEN seg ELSE DocumentPdf
        name4 == trim(replaceQuotes(name3))
        name5 == IF testPdf(name4) THEN name4 ELSE name4 \o DotPdf
    IN IF useUrl /\ ~resUrl.valid
       THEN [kind |-> "threw", name |-> <<>>]
       ELSE [kind |-> "returned", name |-> name5]

\* No download is being named.
NoCapture == [desired |-> <<>>, suggested |-> <<>>, url |-> Url(TRUE, <<>>, NoParams)]

\* Lines 878, 897, 917: ensurePdfName(desiredFilename || dl.suggestedFilename()),
\* called with the one argument: resUrl takes its default ''.
SaveName(c) ==
    ensurePdfName(IF c.desired # <<>> THEN c.desired ELSE c.suggested,
                  Url(TRUE, <<>>, NoParams))

\* Lines 878-879, 897-898, 917-918: the name a captured download is saved under
NameCapture ==
    /\ savedName.kind = "pending"
    /\ savedName' = SaveName(capture)
    /\ UNCHANGED <<nameIn, nameOut, clickIn, clickOut, capture, consultarOut>>
    /\ UNCHANGED <<menuIn, menuOut, routeIn, routeOut, ins, handleIn, handleOut>>
    /\ UNCHANGED <<inputVars, runVars, trackerVars, dlVars>>

\* One call of ensurePdfName
ApplyEnsurePdfName ==
    /\ nameOut.kind = "pending"
    /\ nameOut' = ensurePdfName(nameIn.filename, nameIn.resUrl)
    /\ UNCHANGED <<nameIn, clickIn, clickOut, capture, savedName, consultarOut>>
    /\ UNCHANGED <<menuIn, menuOut, routeIn, routeOut, ins, handleIn, handleOut>>
    /\ UNCHANGED <<inputVars, runVars, trackerVars, dlVars>>

----------------------------------------------------------------------------
(* robustClick, server.js 676-693 *)

\* An element of the chain from the click target (first) up to the root:
\* whether it has client rects and is not hidden (683-687), and whether a
\* click on it succeeds (688).
El(vis, ok) == [visible |-> vis, clickOk |-> ok]

RECURSIVE Climb(_, _)
\* Lines 682-691: the loop from the element n of the chain upward; the index
\* of the element clicked, 0 when the loop ends at the root without a click.
Climb(chain, n) ==
    IF n > Len(chain) THEN 0
    ELSE IF chain[n].visible /\ chain[n].clickOk THEN n
    ELSE Climb(chain, n + 1)

RECURSIVE TriedThrough(_, _)
\* The loop without the break of line 688
TriedThrough(chain, n) ==
    IF n > Len(chain) THEN <<>>
    ELSE IF chain[n].visible THEN <<n>> \o TriedThrough(chain, n + 1)
    ELSE TriedThrough(chain, n + 1)

RECURSIVE Tried(_, _)
\* Lines 682-691: the elements on which cur.click was called, in order, from
\* the element n upward: the visible ones, up to the first whose click
\* succeeds (break at 688) or up to the root (break at 690).
Tried(chain, n) ==
    IF n > Len(chain) THEN <<>>
    ELSE IF chain[n].visible
         THEN IF chain[n].clickOk THEN <<n>> ELSE <<n>> \o Tried(chain, n + 1)
         ELSE Tried(chain, n + 1)

\* Lines 676-693.  clicked is the element clicked: -1 the locator itself
\* (line 679), n > 0 the element n of the chain, 0 none; tried are the
\* elements of the chain whose click was attempted.
robustClick(p) ==
    IF ~p.attached THEN [kind |-> "threw", clicked |-> 0, tried |-> <<>>]
    ELSE IF p.direct THEN [kind |-> "returned", clicked |-> -1, tried |-> <<>>]
    ELSE IF ~p.handle THEN [kind |-> "threw", clicked |-> 0, tried |-> <<>>]
    ELSE [kind |-> "returned", clicked |-> Climb(p.chain, 1), tried |-> Tried(p.chain, 1)]

\* One call of robustClick
ApplyRobustClick ==
    /\ clickOut.kind = "pending"
    /\ clickOut' = robustClick(clickIn)
    /\ UNCHANGED <<nameIn, nameOut, clickIn, capture, savedName, consultarOut>>
    /\ UNCHANGED <<menuIn, menuOut, routeIn, routeOut, ins, handleIn, handleOut>>
    /\ UNCHANGED <<inputVars, runVars, trackerVars, dlVars>>

----------------------------------------------------------------------------
(* consultar, funcoes/consultar.js 11-15 *)

\* consultar has not answered yet.
NoAnswer == [kind |-> "pending", result |-> "", err |-> NoErr]

\* !!resultFound left as it is
ToBooleanIdentity(v) == v

\* !!v on the values of resultFound
ToBoolean(v) == IF v = "true" THEN "true" ELSE "false"

\* const { resultFound } = await runMapa(params); return !!resultFound;
\* an error of runMapa leaves consultar through the await.
Consultar ==
    /\ pc \in {"returned", "thrown"}
    /\ consultarOut = NoAnswer
    /\ consultarOut' = IF outcome.kind = "thrown"
                       THEN [kind |-> "threw", result |-> "", err |-> outcome.err]
                       ELSE [kind |-> "returned", result |-> ToBoolean(outcome.resultFound),
                             err |-> NoErr]
    /\ UNCHANGED <<nameIn, nameOut, clickIn, clickOut, capture, savedName>>
    /\ UNCHANGED <<menuIn, menuOut, routeIn, routeOut, ins, handleIn, handleOut>>
    /\ UNCHANGED <<inputVars, runVars, trackerVars, dlVars>>

----------------------------------------------------------------------------
(* openMenuAncestorsFor of inserir's robustClick, server.js 1148-1198 *)

DefaultMaxHops == 6       \* maxHops = 6 (1148)

\* An ancestor: whether it matches the toggle signature (1155-1160) and
\* whether shouldClick (1182-1189) is true of it.
Anc(t, c) == [toggle |-> t, shouldClick |-> c]

NoMenuIn == [chain |-> <<>>, maxHops |-> DefaultMaxHops, failAt |-> 0]
NoMenuOut == [kind |-> "pending", examined |-> 0, visited |-> <<>>]

RECURSIVE CollectToggles(_, _, _, _)
\* Lines 1151-1171: the for loop from hop on, current being ancestor cur of
\* the chain (beyond its end: null), with the toggles pushed so far.  The
\* result is the list and the number of ancestors the loop evaluated, or the
\* rejection of current.evaluate on the ancestor m.failAt.
CollectToggles(m, cur, hop, acc) ==
    IF hop >= m.maxHops \/ cur > Len(m.chain)
    THEN [kind |-> "returned", ancestors |-> acc, examined |-> hop]
    ELSE IF cur = m.failAt
    THEN [kind |-> "threw", ancestors |-> acc, examined |-> hop]
    ELSE CollectToggles(m, cur + 1, hop + 1,
                        IF m.chain[cur].toggle THEN Append(acc, cur) ELSE acc)

\* The second loop going through the list as it was collected
VisitOrderInnerFirst(acc) == acc

\* Line 1174: for (let i = ancestors.length - 1; i >= 0; i--)
VisitOrder(acc) == [k \in 1..Len(acc) |-> acc[Len(acc) + 1 - k]]

\* Lines 1148-1198: the ancestors hovered, in order, each with whether it
\* was clicked too; hover and click swallow their errors.
openMenuAncestorsFor(m) ==
    LET c == CollectToggles(m, 1, 0, <<>>)
        order == VisitOrder(c.ancestors)
    IN IF c.kind = "threw"
       THEN [kind |-> "threw", examined |-> c.examined, visited |-> <<>>]
       ELSE [kind |-> "returned", examined |-> c.examined,
             visited |-> [k \in 1..Len(order) |->
                            [anc |-> order[k], clicked |-> m.chain[order[k]].shouldClick]]]

\* One call of openMenuAncestorsFor
ApplyOpenMenu ==
    /\ menuOut = NoMenuOut
    /\ menuOut' = openMenuAncestorsFor(menuIn)
    /\ UNCHANGED <<nameIn, nameOut, clickIn, clickOut, capture, savedName, consultarOut>>
    /\ UNCHANGED <<menuIn, routeIn, routeOut, ins, handleIn, handleOut>>
    /\ UNCHANGED <<inputVars, runVars, trackerVars, dlVars>>

----------------------------------------------------------------------------
(* routeHandler call by call, lines 835-862 *)

\* One call made on the route or on the fetched response; ok is whether it
\* resolved.  A fulfill or continue that rejects has not resolved the request.
Call(op, ok) == [op |-> op, ok |-> ok]

NoRouteIn ==
    [done |-> FALSE, fetch |-> TRUE, ct |-> "text/html", body |-> <<>>, read |-> TRUE,
     fulfill |-> TRUE, cont1 |-> TRUE, cont2 |-> TRUE]

NoRouteOut == [kind |-> "pending", calls |-> <<>>, rejected |-> FALSE]

\* Lines 859-861: the catch block continues the request and swallows the
\* rejection of that call.
catchContinue(pre, ok) == pre \o <<Call("continue", ok)>>

\* Line 858 followed, when it rejects, by the catch block; cont1 and cont2
\* are the outcomes of the first and the second route.continue() of the call.
lastContinue(r, pre) ==
    IF r.cont1 THEN pre \o <<Call("continue", TRUE)>>
    ELSE catchContinue(pre \o <<Call("continue", FALSE)>>, r.cont2)

\* routeHandler without the return of line 853
routeHandlerNoReturn(r) ==
    IF r.done
    THEN [kind |-> "done", calls |-> <<Call("continue", r.cont1)>>, rejected |-> ~r.cont1]
    ELSE [kind |-> "done", rejected |-> FALSE,
          calls |->
            IF ~r.fetch THEN catchContinue(<<Call("fetch", FALSE)>>, r.cont1)
            ELSE IF includesPdf(toLowerCase(r.ct))
                 THEN IF ~r.read
                      THEN catchContinue(<<Call("fetch", TRUE), Call("body", FALSE)>>, r.cont1)
                      ELSE IF isPdfBuffer(r.body)
                           THEN IF r.fulfill
                                THEN lastContinue(r, <<Call("fetch", TRUE), Call("body", TRUE),
                                                       Call("fulfill", TRUE)>>)
                                ELSE catchContinue(<<Call("fetch", TRUE), Call("body", TRUE),
                                                     Call("fulfill", FALSE)>>, r.cont1)
                           ELSE lastContinue(r, <<Call("fetch", TRUE), Call("body", TRUE)>>)
                 ELSE lastContinue(r, <<Call("fetch", TRUE)>>)]

\* Lines 835-862: the calls of one run of routeHandler, in order.  Line 838
\* returns the promise of route.continue() without awaiting it, so that its
\* rejection is the handler's; every other rejection lands in the catch block.
routeHandlerCalls(r) ==
    IF r.done
    THEN [kind |-> "done", calls |-> <<Call("continue", r.cont1)>>, rejected |-> ~r.cont1]
    ELSE [kind |-> "done", rejected |-> FALSE,
          calls |->
            IF ~r.fetch THEN catchContinue(<<Call("fetch", FALSE)>>, r.cont1)
            ELSE IF includesPdf(toLowerCase(r.ct))
                 THEN IF ~r.read
                      THEN catchContinue(<<Call("fetch", TRUE), Call("body", FALSE)>>, r.cont1)
                      ELSE IF isPdfBuffer(r.body)
                           THEN IF r.fulfill
                                THEN <<Call("fetch", TRUE), Call("body", TRUE),
                                       Call("fulfill", TRUE)>>
                                ELSE catchContinue(<<Call("fetch", TRUE), Call("body", TRUE),
                                                     Call("fulfill", FALSE)>>, r.cont1)
                           ELSE lastContinue(r, <<Call("fetch", TRUE), Call("body", TRUE)>>)
                 ELSE lastContinue(r, <<Call("fetch", TRUE)>>)]

\* One intercepted request goes through routeHandler.
ApplyRouteHandler ==
    /\ routeOut = NoRouteOut
    /\ routeOut' = routeHandlerCalls(routeIn)
    /\ UNCHANGED <<nameIn, nameOut, clickIn, clickOut, capture, savedName, consultarOut>>
    /\ UNCHANGED <<menuIn, menuOut, routeIn, ins, handleIn, handleOut>>
    /\ UNCHANGED <<inputVars, runVars, trackerVars, dlVars>>

----------------------------------------------------------------------------
(* inserir: the session from launch to close, lines 1019-1449 *)

\* One step of an inserir map, by what the switch of 1317 reads of it
ISt(a, sel) == [action |-> a, selector |-> sel]

NoIns ==
    [pc |-> "off", steps |-> <<>>, login |-> FALSE, logout |-> FALSE, i |-> 1, ran |-> {},
     browser |-> FALSE, context |-> FALSE, closeCalls |-> 0, err |-> "", out |-> ""]

\* Lines 1320-1321
nextIsPressSameSelector(n) ==
    /\ n + 1 \in DOMAIN ins.steps
    /\ ins.steps[n + 1].action = "press"
    /\ ins.steps[n + 1].selector = ins.steps[n].selector

\* Lines 1048-1051: both closes are attempted, their failures swallowed.
InsCloseAll(r) == [r EXCEPT !.context = FALSE, !.browser = FALSE, !.closeCalls = @ + 1]

\* A throw outside the try block: the error leaves inserir as it is.
InsThrow(r, e) == [r EXCEPT !.pc = "thrown", !.err = e]

\* A throw inside the try block of 1275: control goes to the catch of 1445.
InsFail(r, e) == [r EXCEPT !.pc = "catch", !.err = e]

\* Line 1019
InsLaunch ==
    /\ ins.pc = "launch"
    /\ \E ok \in BOOLEAN :
         ins' = IF ok THEN [ins EXCEPT !.pc = "newContext", !.browser = TRUE]
                ELSE InsThrow(ins, "launch")
    /\ UNCHANGED <<nameIn, nameOut, clickIn, clickOut, capture, savedName, consultarOut>>
    /\ UNCHANGED <<menuIn, menuOut, routeIn, routeOut, handleIn, handleOut>>
    /\ UNCHANGED <<inputVars, runVars, trackerVars, dlVars>>

\* Line 1020
InsNewContext ==
    /\ ins.pc = "newContext"
    /\ \E ok \in BOOLEAN :
         ins' = IF ok THEN [ins EXCEPT !.pc = "newPage", !.context = TRUE]
                ELSE InsThrow(ins, "newContext")
    /\ UNCHANGED <<nameIn, nameOut, clickIn, clickOut, capture, savedName, consultarOut>>
    /\ UNCHANGED <<menuIn, menuOut, routeIn, routeOut, handleIn, handleOut>>
    /\ UNCHANGED <<inputVars, runVars, trackerVars, dlVars>>

\* Line 1021
InsNewPage ==
    /\ ins.pc = "newPage"
    /\ \E ok \in BOOLEAN :
         ins' = IF ok THEN [ins EXCEPT !.pc = "goto"] ELSE InsThrow(ins, "newPage")
    /\ UNCHANGED <<nameIn, nameOut, clickIn, clickOut, capture, savedName, consultarOut>>
    /\ UNCHANGED <<menuIn, menuOut, routeIn, routeOut, handleIn, handleOut>>
    /\ UNCHANGED <<inputVars, runVars, trackerVars, dlVars>>

\* Lines 1275-1276
InsGoto ==
    /\ ins.pc = "goto"
    /\ \E ok \in BOOLEAN :
         ins' = IF ok THEN [ins EXCEPT !.pc = "login"] ELSE InsFail(ins, "goto")
    /\ UNCHANGED <<nameIn, nameOut, clickIn, clickOut, capture, savedName, consultarOut>>
    /\ UNCHANGED <<menuIn, menuOut, routeIn, routeOut, handleIn, handleOut>>
    /\ UNCHANGED <<inputVars, runVars, trackerVars, dlVars>>

\* Lines 1279-1308
InsLogin ==
    /\ ins.pc = "login"
    /\ IF ins.login
       THEN \E ok \in BOOLEAN :
              ins' = IF ok THEN [ins EXCEPT !.pc = "steps"] ELSE InsFail(ins, "login")
       ELSE ins' = [ins EXCEPT !.pc = "steps"]
    /\ UNCHANGED <<nameIn, nameOut, clickIn, clickOut, capture, savedName, consultarOut>>
    /\ UNCHANGED <<menuIn, menuOut, routeIn, routeOut, handleIn, handleOut>>
    /\ UNCHANGED <<inputVars, runVars, trackerVars, dlVars>>

\* Lines 1312-1433: one pass of the loop.  A fill followed by a press on the
\* same selector runs both and steps over the press (1353).
InsStep ==
    /\ ins.pc = "steps"
    /\ ins.i <= Len(ins.steps)
    /\ LET n == ins.i
           a == ins.steps[n].action
       IN IF a \notin {"fill", "upload", "select", "click", "press"}
          THEN ins' = InsFail(ins, "unsupported")
          ELSE \E ok \in BOOLEAN :
                 ins' = IF ~ok THEN InsFail(ins, "step")
                        ELSE IF a = "fill" /\ nextIsPressSameSelector(n)
                             THEN [ins EXCEPT !.i = n + 2, !.ran = @ \cup {n, n + 1}]
                             ELSE [ins EXCEPT !.i = n + 1, !.ran = @ \cup {n}]
    /\ UNCHANGED <<nameIn, nameOut, clickIn, clickOut, capture, savedName, consultarOut>>
    /\ UNCHANGED <<menuIn, menuOut, routeIn, routeOut, handleIn, handleOut>>
    /\ UNCHANGED <<inputVars, runVars, trackerVars, dlVars>>

\* Line 1312: the loop condition fails.
InsStepsDone ==
    /\ ins.pc = "steps"
    /\ ins.i > Len(ins.steps)
    /\ ins' = [ins EXCEPT !.pc = "logout"]
    /\ UNCHANGED <<nameIn, nameOut, clickIn, clickOut, capture, savedName, consultarOut>>
    /\ UNCHANGED <<menuIn, menuOut, routeIn, routeOut, handleIn, handleOut>>
    /\ UNCHANGED <<inputVars, runVars, trackerVars, dlVars>>

\* Lines 1436-1444: the logout, its failure ignored, then closeAll and the
\* return.
InsLogoutCloseReturn ==
    /\ ins.pc = "logout"
    /\ ins' = [InsCloseAll(ins) EXCEPT !.pc = "returned", !.out = "ok"]
    /\ UNCHANGED <<nameIn, nameOut, clickIn, clickOut, capture, savedName, consultarOut>>
    /\ UNCHANGED <<menuIn, menuOut, routeIn, routeOut, handleIn, handleOut>>
    /\ UNCHANGED <<inputVars, runVars, trackerVars, dlVars>>

\* Lines 1445-1448
InsCatch ==
    /\ ins.pc = "catch"
    /\ ins' = [InsCloseAll(ins) EXCEPT !.pc = "thrown"]
    /\ UNCHANGED <<nameIn, nameOut, clickIn, clickOut, capture, savedName, consultarOut>>
    /\ UNCHANGED <<menuIn, menuOut, routeIn, routeOut, handleIn, handleOut>>
    /\ UNCHANGED <<inputVars, runVars, trackerVars, dlVars>>

----------------------------------------------------------------------------
(* getClickableHandleFrom and the re-anchoring of the extended robustClick,
   lines 1122-1145 and 1215-1248 *)

\* matches[1] is whether the target matches the clickable signature,
\* matches[k + 1] whether its k-th ancestor does; the handle of element k is
\* named k.  visible is what the evaluations of 1221 and 1233 answer.
NoHandleIn == [matches |-> <<TRUE>>, visible |-> TRUE]

NoHandleOut == [kind |-> "pending", ret |-> 0, disposed |-> {}, used |-> <<>>]

\* Lines 1132-1143: the loop standing on cur; a null parent breaks out to
\* the fallback of 1144, which returns the handle it was given.
RECURSIVE ClimbToClickable(_, _, _)
ClimbToClickable(m, cur, disposed) ==
    IF cur + 1 > Len(m) THEN [ret |-> 1, disposed |-> disposed]
    ELSE IF m[cur + 1] THEN [ret |-> cur + 1, disposed |-> disposed]
    ELSE ClimbToClickable(m, cur + 1, disposed \cup {cur})

\* Lines 1122-1145
getClickableHandleFrom(m) ==
    IF m[1] THEN [ret |-> 1, disposed |-> {}]
    ELSE ClimbToClickable(m, 1, {})

\* Lines 1215-1248: clickable is evaluated at 1221 and 1233 and clicked at
\* 1243 when visible; the evaluation of a disposed handle rejects.
reanchor(h) ==
    LET g == getClickableHandleFrom(h.matches)
    IN IF g.ret \in g.disposed
       THEN [kind |-> "rejected", ret |-> g.ret, disposed |-> g.disposed, used |-> <<g.ret>>]
       ELSE IF h.visible
            THEN [kind |-> "clicked", ret |-> g.ret, disposed |-> g.disposed,
                  used |-> <<g.ret, g.ret, g.ret>>]
            ELSE [kind |-> "notVisible", ret |-> g.ret, disposed |-> g.disposed,
                  used |-> <<g.ret, g.ret>>]

\* One re-anchoring of robustClick on a target that is not visible itself.
ApplyReanchor ==
    /\ handleOut = NoHandleOut
    /\ handleOut' = reanchor(handleIn)
    /\ UNCHANGED <<nameIn, nameOut, clickIn, clickOut, capture, savedName, consultarOut>>
    /\ UNCHANGED <<menuIn, menuOut, routeIn, routeOut, ins, handleIn>>
    /\ UNCHANGED <<inputVars, runVars, trackerVars, dlVars>>

----------------------------------------------------------------------------
(* Initial states and specifications *)

InitRun ==
    /\ pc = "start"
    /\ i = 1
    /\ j = 0
    /\ resultFound = "null"
    /\ downloadedPath = 0
    /\ caughtError = NoErr
    /\ outcome = [kind |-> "pending", resultFound |-> "null", downloadedPath |-> 0, err |-> NoErr]
    /\ launched = 0
    /\ closeCalls = 0
    /\ trace = <<>>

InitTracker ==
    /\ now = 0
    /\ req = [r \in Reqs |-> "new"]
    /\ inflight = [r \in Reqs |-> -1]
    /\ qpc = "idle"
    /\ qdeadline = 0
    /\ qstart = 0
    /\ lastChange = 0
    /\ lastCount = 0
    /\ qobs = [why |-> "", sleeps |-> 0, staleAtCall |-> FALSE, obsSince |-> 0, obsCount |-> 0]

\* No download step has run, nothing is installed on the context.
InitDl ==
    /\ downloadedOnce = FALSE
    /\ routes = 0
    /\ pageListeners = 0
    /\ popups = 0
    /\ pidx = 0
    /\ closedPopups = 0
    /\ routed = NoRouted

NoName == [kind |-> "pending", name |-> <<>>]
NoClick == [kind |-> "pending", clicked |-> 0, tried |-> <<>>]

\* No helper function is applied on its own.
InitFn ==
    /\ nameIn = [filename |-> <<>>, resUrl |-> Url(TRUE, <<>>, NoParams)]
    /\ nameOut = NoName
    /\ clickIn = [attached |-> TRUE, direct |-> TRUE, handle |-> TRUE, chain |-> <<El(TRUE, TRUE)>>]
    /\ clickOut = NoClick
    /\ capture = NoCapture
    /\ savedName = NoName
    /\ consultarOut = NoAnswer
    /\ handleIn = NoHandleIn
    /\ handleOut = NoHandleOut
    /\ ins = NoIns
    /\ routeIn = NoRouteIn
    /\ routeOut = NoRouteOut
    /\ menuIn = NoMenuIn
    /\ menuOut = NoMenuOut

RECURSIVE SeqsUpTo(_, _)
\* The sequences over S of length at most n
SeqsUpTo(S, n) ==
    IF n = 0 THEN {<<>>}
    ELSE LET shorter == SeqsUpTo(S, n - 1)
         IN shorter \cup {Append(s, x) : s \in {q \in shorter : Len(q) = n - 1}, x \in S}

\* The steps of the maps that are executed
ExecSteps ==
    { St("fill", "#a", "k1", FALSE), St("press", "#a", "", FALSE), St("press", "#a", "", TRUE),
      St("click", "#b", "", FALSE), St("click", "#b", "", TRUE),
      St("upload", "#b", "k2", FALSE), St("select", "#b", "k1", FALSE),
      St("download", "#b", "", FALSE), St("hover", "#b", "", FALSE) }

\* The steps of the maps that are validated: also the malformed ones
PreSteps ==
    { St("fill", "#a", "k1", FALSE), St("upload", "#b", "k2", FALSE), St("upload", "#a", "k1", FALSE),
      St("click", "#b", "", FALSE),
      St("click", "", "", FALSE), St("", "#a", "", FALSE), St("select", "#b", "", FALSE) }

Creds == [usernameValue |-> "u", passwordValue |-> "p"]
NoCreds == [usernameValue |-> "", passwordValue |-> ""]

\* One runMapa call on a map that passes or fails validation by its data only.
Init ==
    /\ url = "http://host/"
    /\ loginInfo = Creds
    /\ exists = Files
    /\ dados \in {[k \in Keys |-> IF k = "k1" THEN v ELSE Arr(<<"f1">>)] : v \in {Absent, Undef, Str("v")}}
    /\ mapa \in [operacao : {"consultar", "editar"},
                 login : {NoLogin, Login("#u", "#p", "#s")},
                 logout : {"", "#out"},
                 steps : SeqsUpTo(ExecSteps, MaxSteps)]
    /\ InitRun
    /\ InitTracker
    /\ InitDl
    /\ InitFn

\* The steps of runMapa.  What routeHandler does with the responses it
\* intercepts changes nothing of the run: it is observed in NextDownload.
Next ==
    \/ Validate \/ LaunchContext \/ NewPage \/ Goto \/ DoLogin
    \/ LoopEnd \/ EnterProbe \/ Probe
    \/ StepFill \/ StepUpload \/ StepSelect \/ StepClick \/ StepPress \/ StepDownload \/ StepDefault
    \/ DownloadClick \/ PopupOpens
    \/ DownloadMain \/ DownloadPopup \/ DownloadLate \/ DownloadUninstall
    \/ FinallyLogout \/ CloseAll \/ Finish

Spec == Init /\ [][Next]_vars

\* One runMapa call on any map and data, valid or not.
InitPre ==
    /\ url \in {"", "http://host/"}
    /\ loginInfo \in {Creds, NoCreds}
    /\ exists \in {{}, {"f1"}, Files}
    /\ dados \in [Keys -> {Absent, Str("f1"), Arr(<<"f1", "f2">>)}]
    /\ mapa \in [operacao : {"cadastrar", "editar"},
                 login : {NoLogin, Login("#u", "#p", "#s"), Login("#u", "", "#s")},
                 logout : {""},
                 steps : SeqsUpTo(PreSteps, MaxPreSteps)]
    /\ InitRun
    /\ InitTracker
    /\ InitDl
    /\ InitFn

\* Validation and the opening of the session.
NextPre == Validate \/ LaunchContext \/ NewPage

SpecPre == InitPre /\ [][NextPre]_vars

\* The tracker alone: requests come and go, time passes, quiet() is called once.
InitQuiet ==
    /\ url = "http://host/"
    /\ loginInfo = Creds
    /\ exists = Files
    /\ dados = [k \in Keys |-> Absent]
    /\ mapa = [operacao |-> "consultar", login |-> NoLogin, logout |-> "", steps |-> <<>>]
    /\ InitRun
    /\ InitTracker
    /\ InitDl
    /\ InitFn

NextQuiet ==
    \/ \E r \in Reqs : RequestStart(r)
    \/ \E r \in Reqs : RequestFinished(r)
    \/ \E r \in Reqs : RequestFailed(r)
    \/ IdleAdvance
    \/ \E d \in {ShortQuietMs, ComboQuietMs, MaxQuietMs} : QuietCall(d)
    \/ QuietWake

SpecQuiet == InitQuiet /\ [][NextQuiet]_vars

\* The timer of line 663 fires: a sleeping quiet() is woken.
SpecQuietFair == SpecQuiet /\ WF_vars(QuietWake)

\* The steps of the maps that download
DownloadSteps ==
    { St("download", "#b", "", FALSE), St("click", "#b", "", FALSE), St("click", "#b", "", TRUE) }

\* One runMapa call on a valid map of clicks and downloads, with the
\* responses intercepted during the download steps.
InitDownload ==
    /\ url = "http://host/"
    /\ loginInfo = Creds
    /\ exists = Files
    /\ dados = [k \in Keys |-> Absent]
    /\ mapa \in [operacao : {"baixar", "consultar"},
                 login : {NoLogin},
                 logout : {""},
                 steps : SeqsUpTo(DownloadSteps, MaxSteps)]
    /\ InitRun
    /\ InitTracker
    /\ InitDl
    /\ InitFn

NextDownload ==
    \/ Validate \/ LaunchContext \/ NewPage \/ Goto
    \/ LoopEnd \/ EnterProbe \/ Probe
    \/ StepClick \/ StepDownload
    \/ DownloadClick \/ PopupOpens \/ RouteHandler
    \/ DownloadMain \/ DownloadPopup \/ DownloadLate \/ DownloadUninstall
    \/ FinallyLogout \/ CloseAll \/ Finish

SpecDownload == InitDownload /\ [][NextDownload]_vars

\* The pieces the file names of the model are made of
Pieces ==
    { <<"a">>, DotPdf, <<".", "P", "D", "F">>, <<".", "p", "d">>,
      <<"\"">>, <<"'">>, <<" ">>, <<"/">> }

RECURSIVE Names(_)
\* The concatenations of at most n pieces
Names(n) ==
    IF n = 0 THEN {<<>>}
    ELSE Names(n - 1) \cup {a \o b : a \in Names(n - 1), b \in Pieces}

\* The URL texts of the model
Urls ==
    { Url(ok, before, params) :
        ok \in BOOLEAN, before \in Names(1),
        params \in [{"filename", "fileName", "download"} -> {<<>>, <<"a", "'">>}] }

\* One call of ensurePdfName on any file name and URL.
InitName ==
    /\ url = "http://host/"
    /\ loginInfo = Creds
    /\ exists = Files
    /\ dados = [k \in Keys |-> Absent]
    /\ mapa = [operacao |-> "baixar", login |-> NoLogin, logout |-> "", steps |-> <<>>]
    /\ InitRun
    /\ InitTracker
    /\ InitDl
    /\ nameIn \in [filename : Names(MaxPieces), resUrl : Urls]
    /\ nameOut = NoName
    /\ clickIn = [attached |-> TRUE, direct |-> TRUE, handle |-> TRUE, chain |-> <<El(TRUE, TRUE)>>]
    /\ clickOut = NoClick
    /\ capture = NoCapture
    /\ savedName = NoName
    /\ consultarOut = NoAnswer
    /\ handleIn = NoHandleIn
    /\ handleOut = NoHandleOut
    /\ ins = NoIns
    /\ routeIn = NoRouteIn
    /\ routeOut = NoRouteOut
    /\ menuIn = NoMenuIn
    /\ menuOut = NoMenuOut

NextName == ApplyEnsurePdfName

SpecName == InitName /\ [][NextName]_vars

\* The chains of elements from a click target up to the root
Chains == SeqsUpTo({El(v, c) : v, c \in BOOLEAN}, MaxChain) \ {<<>>}

\* One call of robustClick on any page.
InitClick ==
    /\ url = "http://host/"
    /\ loginInfo = Creds
    /\ exists = Files
    /\ dados = [k \in Keys |-> Absent]
    /\ mapa = [operacao |-> "consultar", login |-> NoLogin, logout |-> "", steps |-> <<>>]
    /\ InitRun
    /\ InitTracker
    /\ InitDl
    /\ nameIn = [filename |-> <<>>, resUrl |-> Url(TRUE, <<>>, NoParams)]
    /\ nameOut = NoName
    /\ clickIn \in [attached : BOOLEAN, direct : BOOLEAN, handle : BOOLEAN, chain : Chains]
    /\ clickOut = NoClick
    /\ capture = NoCapture
    /\ savedName = NoName
    /\ consultarOut = NoAnswer
    /\ handleIn = NoHandleIn
    /\ handleOut = NoHandleOut
    /\ ins = NoIns
    /\ routeIn = NoRouteIn
    /\ routeOut = NoRouteOut
    /\ menuIn = NoMenuIn
    /\ menuOut = NoMenuOut

NextClick == ApplyRobustClick

SpecClick == InitClick /\ [][NextClick]_vars

\* The login blocks of the maps, complete or lacking one selector
Logins ==
    { NoLogin, Login("#u", "#p", "#s"), Login("", "#p", "#s"), Login("#u", "", "#s"),
      Login("#u", "#p", "") }

\* The credentials of the callers, complete or lacking one value; a caller
\* that passes no loginInfo at all fails the test of line 593 as NoCreds does.
LoginInfos ==
    { Creds, NoCreds, [usernameValue |-> "u", passwordValue |-> ""],
      [usernameValue |-> "", passwordValue |-> "p"] }

\* One runMapa call on a map of clicks, with any login block and credentials.
InitLogin ==
    /\ url = "http://host/"
    /\ loginInfo \in LoginInfos
    /\ exists = Files
    /\ dados = [k \in Keys |-> Absent]
    /\ mapa \in [operacao : {"consultar"},
                 login : Logins,
                 logout : {"", "#out"},
                 steps : SeqsUpTo({St("click", "#b", "", FALSE)}, MaxSteps)]
    /\ InitRun
    /\ InitTracker
    /\ InitDl
    /\ InitFn

NextLogin ==
    \/ Validate \/ LaunchContext \/ NewPage \/ Goto \/ DoLogin
    \/ LoopEnd \/ StepClick
    \/ FinallyLogout \/ CloseAll \/ Finish

SpecLogin == InitLogin /\ [][NextLogin]_vars

\* The steps of the maps that are queried
QuerySteps ==
    { St("click", "#b", "", FALSE), St("click", "#b", "", TRUE), St("press", "#a", "", TRUE) }

\* One consultar call: runMapa on a map of clicks and probes, then the answer.
InitConsultar ==
    /\ url \in {"", "http://host/"}
    /\ loginInfo = Creds
    /\ exists = Files
    /\ dados = [k \in Keys |-> Absent]
    /\ mapa \in [operacao : {"consultar"},
                 login : {NoLogin},
                 logout : {"", "#out"},
                 steps : SeqsUpTo(QuerySteps, MaxSteps)]
    /\ InitRun
    /\ InitTracker
    /\ InitDl
    /\ InitFn

NextConsultar ==
    \/ Validate \/ LaunchContext \/ NewPage \/ Goto
    \/ LoopEnd \/ EnterProbe \/ Probe \/ StepClick
    \/ FinallyLogout \/ CloseAll \/ Finish
    \/ Consultar

SpecConsultar == InitConsultar /\ [][NextConsultar]_vars

\* The steps of the maps that wait for the network after an interaction
WaitSteps ==
    {StM("fill", "#a", "k1", eu, nt) : eu, nt \in BOOLEAN}
    \cup {StM("press", "#a", "", eu, nt) : eu, nt \in BOOLEAN}
    \cup {StM("click", "#b", "", TRUE, TRUE), StM("select", "#b", "k1", TRUE, FALSE)}

\* One runMapa call on a valid map of steps with waits, all data given.
InitWaits ==
    /\ url = "http://host/"
    /\ loginInfo = Creds
    /\ exists = Files
    /\ dados = [k \in Keys |-> Str("v")]
    /\ mapa \in [operacao : {"cadastrar"},
                 login : {NoLogin},
                 logout : {""},
                 steps : SeqsUpTo(WaitSteps, MaxSteps)]
    /\ InitRun
    /\ InitTracker
    /\ InitDl
    /\ InitFn

NextWaits ==
    \/ Validate \/ LaunchContext \/ NewPage \/ Goto
    \/ LoopEnd \/ StepFill \/ StepSelect \/ StepClick \/ StepPress
    \/ FinallyLogout \/ CloseAll \/ Finish

SpecWaits == InitWaits /\ [][NextWaits]_vars

\* One captured download, with any override, suggested name and URL.
InitCapture ==
    /\ url = "http://host/"
    /\ loginInfo = Creds
    /\ exists = Files
    /\ dados = [k \in Keys |-> Absent]
    /\ mapa = [operacao |-> "baixar", login |-> NoLogin, logout |-> "", steps |-> <<>>]
    /\ InitRun
    /\ InitTracker
    /\ InitDl
    /\ nameIn = [filename |-> <<>>, resUrl |-> Url(TRUE, <<>>, NoParams)]
    /\ nameOut = NoName
    /\ clickIn = [attached |-> TRUE, direct |-> TRUE, handle |-> TRUE, chain |-> <<El(TRUE, TRUE)>>]
    /\ clickOut = NoClick
    /\ capture \in [desired : Names(1), suggested : Names(1), url : Urls]
    /\ savedName = NoName
    /\ consultarOut = NoAnswer
    /\ handleIn = NoHandleIn
    /\ handleOut = NoHandleOut
    /\ ins = NoIns
    /\ routeIn = NoRouteIn
    /\ routeOut = NoRouteOut
    /\ menuIn = NoMenuIn
    /\ menuOut = NoMenuOut

NextCapture == NameCapture

SpecCapture == InitCapture /\ [][NextCapture]_vars

\* The ancestors of the model: no toggle, a toggle to hover, a toggle to
\* hover and click
Ancs == {Anc(FALSE, FALSE), Anc(TRUE, FALSE), Anc(TRUE, TRUE)}

\* One call of openMenuAncestorsFor on any chain of ancestors, with the
\* default maxHops or a smaller one, an evaluation failing or not.
InitMenu ==
    /\ url = "http://host/"
    /\ loginInfo = Creds
    /\ exists = Files
    /\ dados = [k \in Keys |-> Absent]
    /\ mapa = [operacao |-> "cadastrar", login |-> NoLogin, logout |-> "", steps |-> <<>>]
    /\ InitRun
    /\ InitTracker
    /\ InitDl
    /\ nameIn = [filename |-> <<>>, resUrl |-> Url(TRUE, <<>>, NoParams)]
    /\ nameOut = NoName
    /\ clickIn = [attached |-> TRUE, direct |-> TRUE, handle |-> TRUE, chain |-> <<El(TRUE, TRUE)>>]
    /\ clickOut = NoClick
    /\ capture = NoCapture
    /\ savedName = NoName
    /\ consultarOut = NoAnswer
    /\ handleIn = NoHandleIn
    /\ handleOut = NoHandleOut
    /\ ins = NoIns
    /\ routeIn = NoRouteIn
    /\ routeOut = NoRouteOut
    /\ menuIn \in [chain : SeqsUpTo(Ancs, MaxDepth), maxHops : {2, DefaultMaxHops}, failAt : {0, 3}]
    /\ menuOut = NoMenuOut

NextMenu == ApplyOpenMenu

SpecMenu == InitMenu /\ [][NextMenu]_vars

\* One intercepted request: any response, before or after the capture, any
\* of the calls on the route or the response rejecting.
InitRoute ==
    /\ url = "http://host/"
    /\ loginInfo = Creds
    /\ exists = Files
    /\ dados = [k \in Keys |-> Absent]
    /\ mapa = [operacao |-> "baixar", login |-> NoLogin, logout |-> "", steps |-> <<>>]
    /\ InitRun
    /\ InitTracker
    /\ InitDl
    /\ nameIn = [filename |-> <<>>, resUrl |-> Url(TRUE, <<>>, NoParams)]
    /\ nameOut = NoName
    /\ clickIn = [attached |-> TRUE, direct |-> TRUE, handle |-> TRUE, chain |-> <<El(TRUE, TRUE)>>]
    /\ clickOut = NoClick
    /\ capture = NoCapture
    /\ savedName = NoName
    /\ consultarOut = NoAnswer
    /\ handleIn = NoHandleIn
    /\ handleOut = NoHandleOut
    /\ ins = NoIns
    /\ menuIn = NoMenuIn
    /\ menuOut = NoMenuOut
    /\ routeIn \in [done : BOOLEAN, fetch : BOOLEAN, ct : ContentTypes, body : Bodies,
                    read : BOOLEAN, fulfill : BOOLEAN, cont1 : BOOLEAN, cont2 : BOOLEAN]
    /\ routeOut = NoRouteOut

NextRoute == ApplyRouteHandler

SpecRoute == InitRoute /\ [][NextRoute]_vars

\* The steps of the inserir maps of the model
InsSteps ==
    SeqsUpTo({ISt(a, sel) : a \in {"fill", "press", "click", "hover"}, sel \in {"#a", "#b"}},
             MaxSteps)

\* One call of inserir that passed its validation, about to launch.
InitInserir ==
    /\ url = "http://host/"
    /\ loginInfo = Creds
    /\ exists = Files
    /\ dados = [k \in Keys |-> Absent]
    /\ mapa = [operacao |-> "cadastrar", login |-> NoLogin, logout |-> "", steps |-> <<>>]
    /\ InitRun
    /\ InitTracker
    /\ InitDl
    /\ nameIn = [filename |-> <<>>, resUrl |-> Url(TRUE, <<>>, NoParams)]
    /\ nameOut = NoName
    /\ clickIn = [attached |-> TRUE, direct |-> TRUE, handle |-> TRUE, chain |-> <<El(TRUE, TRUE)>>]
    /\ clickOut = NoClick
    /\ capture = NoCapture
    /\ savedName = NoName
    /\ consultarOut = NoAnswer
    /\ handleIn = NoHandleIn
    /\ handleOut = NoHandleOut
    /\ menuIn = NoMenuIn
    /\ menuOut = NoMenuOut
    /\ routeIn = NoRouteIn
    /\ routeOut = NoRouteOut
    /\ \E st \in InsSteps, li \in BOOLEAN, lo \in BOOLEAN :
         ins = [NoIns EXCEPT !.pc = "launch", !.steps = st, !.login = li, !.logout = lo]

NextInserir ==
    \/ InsLaunch
    \/ InsNewContext
    \/ InsNewPage
    \/ InsGoto
    \/ InsLogin
    \/ InsStep
    \/ InsStepsDone
    \/ InsLogoutCloseReturn
    \/ InsCatch

SpecInserir == InitInserir /\ [][NextInserir]_vars

\* One re-anchoring: a target with up to MaxDepth - 1 ancestors, each
\* matching the clickable signature or not.
InitHandle ==
    /\ url = "http://host/"
    /\ loginInfo = Creds
    /\ exists = Files
    /\ dados = [k \in Keys |-> Absent]
    /\ mapa = [operacao |-> "cadastrar", login |-> NoLogin, logout |-> "", steps |-> <<>>]
    /\ InitRun
    /\ InitTracker
    /\ InitDl
    /\ nameIn = [filename |-> <<>>, resUrl |-> Url(TRUE, <<>>, NoParams)]
    /\ nameOut = NoName
    /\ clickIn = [attached |-> TRUE, direct |-> TRUE, handle |-> TRUE, chain |-> <<El(TRUE, TRUE)>>]
    /\ clickOut = NoClick
    /\ capture = NoCapture
    /\ savedName = NoName
    /\ consultarOut = NoAnswer
    /\ menuIn = NoMenuIn
    /\ menuOut = NoMenuOut
    /\ routeIn = NoRouteIn
    /\ routeOut = NoRouteOut
    /\ ins = NoIns
    /\ handleIn \in [matches : SeqsUpTo(BOOLEAN, MaxDepth) \ {<<>>}, visible : BOOLEAN]
    /\ handleOut = NoHandleOut

NextHandle == ApplyReanchor

SpecHandle == InitHandle /\ [][NextHandle]_vars

----------------------------------------------------------------------------
(* Properties of pre-flight validation (SpecPre) *)

HasEv(e) == \E k \in DOMAIN trace : trace[k].ev = e

\* Some fill/upload/select step names a key that dados lacks.
MissingKeys ==
    {steps[n].key : n \in {m \in DOMAIN steps : /\ steps[m].action \in {"fill", "upload", "select"}
                                                /\ steps[m].key # ""
                                                /\ dados[steps[m].key].kind = "absent"}}

\* The (key, path) pairs of the upload steps whose file does not exist.
MissingPairs ==
    UNION { LET k == steps[n].key
                list == FileList(dados[k])
            IN {[key |-> k, path |-> list[x]] :
                    x \in {y \in DOMAIN list : list[y] = "<undefined>" \/ list[y] \notin exists}} :
            n \in {m \in DOMAIN steps : /\ steps[m].action = "upload"
                                        /\ steps[m].key # ""
                                        /\ dados[steps[m].key].kind # "absent"} }

\* url, login data and the shape of every step are valid.
WellFormedCall ==
    /\ url # ""
    /\ mapa.login.present =>
         /\ mapa.login.username # "" /\ mapa.login.password # "" /\ mapa.login.submit # ""
         /\ loginInfo.usernameValue # "" /\ loginInfo.passwordValue # ""
    /\ \A n \in DOMAIN steps :
         /\ steps[n].selector # "" /\ steps[n].action # ""
         /\ steps[n].action \in {"fill", "upload", "select"} => steps[n].key # ""

Range(s) == {s[k] : k \in DOMAIN s}

\* C4: if dados lacks a key required by a fill/upload/select step and the
\* operation is not 'editar', runMapa throws and launchPersistentContext is
\* never called.
C4_MissingKeyThrowsBeforeSession ==
    (MissingKeys # {} /\ mapa.operacao # "editar")
        => /\ launched = 0
           /\ pc \in {"start", "thrown"}
           /\ ~HasEv("launch")

C4_Witness ==
    /\ MissingKeys # {} /\ mapa.operacao # "editar"
    /\ WellFormedCall
    /\ pc = "thrown"
    /\ outcome.err.kind = "absentKeys"

----------------------------------------------------------------------------
(* Properties of the run (Spec) *)

ProbeIdx == {n \in DOMAIN steps : steps[n].resultSelector}

Min(S) == CHOOSE x \in S : \A y \in S : x <= y

\* The first contiguous group of resultSelector steps of the map.
FirstGroup ==
    IF ProbeIdx = {} THEN {}
    ELSE {n \in ProbeIdx : \A m \in Min(ProbeIdx)..n : m \in ProbeIdx}

\* The events of the steps: what the interpreter did with step idx.
StepEvents == {"fill", "typeHuman", "skip", "missing", "upload", "select", "click", "press",
               "download", "unsupported"}

\* C1: a run that returns on a map without any resultSelector step returns
\* resultFound absent (null), whatever the page did.
C1_NoProbeNoResult ==
    (pc = "returned" /\ ProbeIdx = {}) => outcome.resultFound = "null"

C1_Witness ==
    /\ pc = "returned"
    /\ ProbeIdx = {}
    /\ Len(steps) = MaxSteps
    /\ HasEv("click")
    /\ outcome.resultFound = "null"

\* C2: on a map with a contiguous group of resultSelector steps, a run that
\* returns has resultFound true iff a locator of the group attached, false
\* otherwise, and no step after the group is executed.
C2_ProbeGroupDecidesResult ==
    (pc = "returned" /\ FirstGroup # {})
        => /\ outcome.resultFound \in {"true", "false"}
           /\ outcome.resultFound = "true"
                <=> \E k \in DOMAIN trace : trace[k].ev = "probe.attached" /\ trace[k].idx \in FirstGroup
           /\ \A k \in DOMAIN trace :
                trace[k].ev \in StepEvents => \A g \in FirstGroup : trace[k].idx < g

\* A fill step at n directly followed by a press step on the same selector.
FillPressPair(n) ==
    /\ n \in DOMAIN steps /\ n + 1 \in DOMAIN steps
    /\ steps[n].action = "fill"
    /\ steps[n + 1].action = "press"
    /\ steps[n + 1].selector = steps[n].selector

\* C3: when the interpreter is at a fill step followed by a press step on the
\* same selector and dados[key] is defined, its one transition is the combined
\* type-then-press interaction, after which the index is i + 2 (or the
\* interaction throws and the run is aborted); the press step of the pair is
\* never dispatched on its own.
C3_ComboAdvancesTwo ==
    [][ /\ (/\ pc = "steps" /\ FillPressPair(i) /\ ~steps[i].resultSelector
            /\ dados[steps[i].key].kind \notin {"absent", "undefined"})
           => \/ /\ pc' = "steps" /\ i' = i + 2
                 /\ trace' = trace \o <<Ev("typeHuman", i), Ev("race", i)>>
              \/ /\ pc' = "finally" /\ i' = i /\ caughtError' = StepErr(i)
                 /\ trace' = Append(trace, Ev("typeHuman", i))
        /\ \A k \in DOMAIN trace' :
             (trace'[k].ev = "press" /\ FillPressPair(trace'[k].idx - 1))
                => steps[trace'[k].idx - 1].resultSelector
      ]_vars

C3_Witness ==
    /\ pc = "steps"
    /\ i = 3
    /\ FillPressPair(1)
    /\ trace[Len(trace) - 1] = Ev("typeHuman", 1)

\* The error matches the interaction that raised it.
ErrOf(e, ev) ==
    \/ e.kind = "gotoFailed" /\ ev.ev = "goto"
    \/ e.kind = "loginFailed" /\ ev.ev \in {"login.username", "login.password", "login.submit"}
    \/ /\ e.kind \in {"stepFailed", "dadosAusente", "unsupportedAction"}
       /\ ev.ev \in StepEvents
       /\ e.at = ev.idx

\* C7: if the map declares logout and navigation, login or a step throws, the
\* logout click is attempted after the failing interaction and before the
\* session is closed, and the error thrown to the caller is the error of the
\* failing interaction, whether the logout succeeds or fails.
C7_LogoutAfterErrorKeepsError ==
    (pc = "thrown" /\ launched > 0 /\ HasEv("goto") /\ mapa.logout # "")
        => \E k \in DOMAIN trace :
             /\ trace[k].ev \in {"logout", "logout.failed"}
             /\ k > 1 /\ ErrOf(outcome.err, trace[k - 1])
             /\ k < Len(trace) /\ trace[k + 1].ev = "close"

C7_Witness ==
    /\ pc = "thrown"
    /\ mapa.logout # ""
    /\ HasEv("logout.failed")
    /\ outcome.err = StepErr(2)

\* C8: every session opened is closed exactly once before runMapa returns or
\* throws, on every exit path after the session is opened.
C8_SessionClosedOnce ==
    (pc \in {"returned", "thrown"} /\ launched > 0) => closeCalls = launched

----------------------------------------------------------------------------
(* Properties of the network activity tracker (SpecQuiet) *)

\* qobs.obsCount is the count seen by the latest pass of the loop and
\* qobs.obsSince the time of the first of the latest passes that saw it.

C10_StaleEntriesDoNotBlock ==
    qobs.staleAtCall
        => /\ qpc = "returned"
           /\ qobs.sleeps = 0
           /\ now = qstart
           /\ Size(inflight) = 0

C10_Witness ==
    /\ qobs.staleAtCall
    /\ qpc = "returned"
    /\ \E r \in Reqs : req[r] = "live" /\ isXhr(r) /\ inflight[r] = -1

\* C11: quiet() never raises an error and completes: whatever requests start,
\* finish or fail meanwhile, a call is only ever waiting or returned, and a
\* waiting call returns (on a zero count, a stable count or the deadline).
C11_QuietCompletesNormally ==
    /\ [](qpc \in {"idle", "sleeping", "returned"})
    /\ (qpc = "sleeping") ~> (qpc = "returned" /\ qobs.why \in {"zero", "stable", "deadline"})

C11_Witness ==
    /\ qpc = "returned"
    /\ qobs.why = "deadline"
    /\ qobs.sleeps > 0
    /\ Size(inflight) > 0
    /\ \E r \in Reqs : req[r] \in {"finished", "failed"}

\* C12: a tracked request that has finished or failed is no longer in the
\* in-flight map, so that once every started request is done the count is
\* zero.
C12_DoneRequestsRemoved ==
    /\ \A r \in Reqs : req[r] \in {"finished", "failed"} => inflight[r] = -1
    /\ (\A r \in Reqs : req[r] # "live") => Size(inflight) = 0

----------------------------------------------------------------------------
(* Properties of the download step (SpecDownload) *)

\* The content type names PDF, whatever its case and parameters.
CtIsPdf(ct) == ct \in {"Application/PDF", "application/pdf; charset=binary"}

\* The body begins with the five bytes '%PDF-'.
StartsWithMagic(b) ==
    /\ Len(b) >= 5
    /\ b[1] = "%" /\ b[2] = "P" /\ b[3] = "D" /\ b[4] = "F" /\ b[5] = "-"

\* C13: an intercepted response is rewritten to an attachment (fulfilled)
\* only if its content type indicates PDF and its body begins with '%PDF-';
\* every other response is continued unmodified.
C13_OnlyRealPdfRewritten ==
    routed # NoRouted
        => /\ routed.act \in {"fulfill", "continue"}
           /\ routed.act = "fulfill" => (CtIsPdf(routed.ct) /\ StartsWithMagic(routed.body))
           /\ ~(CtIsPdf(routed.ct) /\ StartsWithMagic(routed.body)) => routed.act = "continue"

C13_Witness ==
    /\ pc = "dl.main"
    /\ routed.act = "fulfill"
    /\ routed.ct = "Application/PDF"

\* The positions of the trace where step n did e.
Pos(e, n) == {k \in DOMAIN trace : trace[k] = Ev(e, n)}

\* The positions where step n captured a download.
CapturePos(n) == Pos("dl.saved", n) \cup Pos("dl.saveFailed", n)

AttemptEvents == {"dl.main", "dl.popup", "dl.late"}

\* C15: in a download step the strategies are attempted in the order main
\* page, popups, late main page (the first and the last at most once, and
\* none before the first), and after a capture no strategy is attempted
\* in that step.
C15_StrategiesInOrder ==
    \A n \in DOMAIN steps :
        LET main == Pos("dl.main", n)
            popup == Pos("dl.popup", n)
            late == Pos("dl.late", n)
        IN /\ Cardinality(main) <= 1
           /\ Cardinality(late) <= 1
           /\ (popup \cup late # {}) => main # {}
           /\ \A a \in main, b \in popup \cup late : a < b
           /\ \A a \in popup, b \in late : a < b
           /\ \A c \in CapturePos(n), k \in main \cup popup \cup late : k < c

C15_Witness ==
    /\ pc = "returned"
    /\ \E n \in DOMAIN steps : \E c \in Pos("dl.saved", n) :
         /\ Pos("dl.main", n) # {}
         /\ c > 1 /\ trace[c - 1] = Ev("dl.popup", n)
         /\ Pos("dl.late", n) = {}

DownloadPcs == {"dl.click", "dl.main", "dl.popups", "dl.late", "dl.uninstall"}

\* C16: outside the download steps no interception rule and no popup
\* listener is installed on the context: each step that installed them has
\* uninstalled them when it finishes, by success or by failure.
C16_HooksUninstalled ==
    pc \notin DownloadPcs => (routes = 0 /\ pageListeners = 0)

\* Step n is a download step that is over, by success or failure.
StepOver(n) == i > n \/ (i = n /\ pc \notin (DownloadPcs \cup {"steps"}))

\* C17: a download step whose click succeeded (strategy 1 was attempted) and
\* that captured nothing raises no error, leaves downloadedPath as it was and
\* hands over to the next step; if no step captured, downloadedPath is null.
C17_NoCaptureIsNotAnError ==
    /\ \A n \in DOMAIN steps :
         (Pos("dl.main", n) # {} /\ CapturePos(n) = {} /\ StepOver(n))
            => /\ i > n
               /\ caughtError.at # n
               /\ downloadedPath # n
    /\ (\A n \in DOMAIN steps : CapturePos(n) = {}) => downloadedPath = 0

C17_Witness ==
    /\ pc = "returned"
    /\ mapa.operacao = "baixar"
    /\ outcome.downloadedPath = 0
    /\ Pos("dl.late", 1) # {} /\ CapturePos(1) = {}
    /\ Pos("click", 2) # {}

\* C18: the result carries downloadedPath only when the operation is
\* 'baixar'; for every other operation it is null, whatever was captured.
C18_PathOnlyForBaixar ==
    pc = "returned"
        => outcome.downloadedPath = (IF mapa.operacao = "baixar" THEN downloadedPath ELSE 0)

C18_Witness ==
    /\ pc = "returned"
    /\ mapa.operacao # "baixar"
    /\ downloadedPath # 0
    /\ outcome.downloadedPath = 0

----------------------------------------------------------------------------
(* Properties of the helper functions (SpecName, SpecClick) *)

\* The name ends in '.pdf', in any case of the letters.
EndsInPdf(s) ==
    /\ Len(s) >= 4
    /\ s[Len(s) - 3] = "."
    /\ s[Len(s) - 2] \in {"p", "P"}
    /\ s[Len(s) - 1] \in {"d", "D"}
    /\ s[Len(s)] \in {"f", "F"}

\* C14: every name ensurePdfName returns ends in '.pdf' (case-insensitively)
\* and holds no single or double quote; it returns for every file name and
\* URL, but for an empty file name with a URL that `new URL` rejects.
C14_NameEndsInPdfNoQuotes ==
    /\ nameOut.kind = "returned"
         => /\ EndsInPdf(nameOut.name)
            /\ \A k \in DOMAIN nameOut.name : nameOut.name[k] \notin {"\"", "'"}
    /\ nameOut.kind = "threw"
         => (nameIn.filename = <<>> /\ ~nameIn.resUrl.valid /\ ~UrlIsEmpty(nameIn.resUrl))

C14_Witness ==
    /\ nameOut.kind = "returned"
    /\ nameIn.filename = <<>>
    /\ UrlIsEmpty(nameIn.resUrl)
    /\ nameOut.name = DocumentPdf

\* C19: robustClick returns normally only after it has clicked an element:
\* the locator itself or an element of the chain up to the root.
C19_ReturnsOnlyAfterClick ==
    clickOut.kind = "returned" => clickOut.clicked # 0

----------------------------------------------------------------------------
(* Unsupported actions (Spec) *)

SupportedActions == {"fill", "click", "upload", "select", "press", "download"}

\* C20: a map with a step of an unsupported action is rejected before any
\* browser interaction: no session is opened and nothing is done on a page.
C20_UnsupportedActionRejectedFirst ==
    (\E n \in DOMAIN steps : steps[n].action \notin SupportedActions)
        => /\ launched = 0
           /\ trace = <<>>
           /\ pc \in {"start", "thrown"}

----------------------------------------------------------------------------
(* Optional data of fill steps (Spec) *)

\* The interpreter is about to dispatch a fill step whose dados[key] is
\* undefined.
AtFillWithoutData ==
    /\ pc = "steps"
    /\ i \in DOMAIN steps
    /\ ~steps[i].resultSelector
    /\ steps[i].action = "fill"
    /\ dados[steps[i].key].kind \in {"absent", "undefined"}

\* C21: at a fill step whose dados[key] is absent, a map of operation
\* 'editar' skips the step, and with it the press step paired on the same
\* selector, with no interaction and no error; a map of any other operation
\* fails with the missing-field error of that key, at the step or, when dados
\* lacks the key altogether, already at validation.
C21_AbsentDataSkippedOrFails ==
    [][ /\ (AtFillWithoutData /\ mapa.operacao = "editar")
            => /\ pc' = "steps"
               /\ i' = i + (IF FillPressPair(i) THEN 2 ELSE 1)
               /\ trace' = Append(trace, Ev("skip", i))
               /\ caughtError' = caughtError
        /\ (AtFillWithoutData /\ mapa.operacao # "editar")
            => /\ pc' = "finally"
               /\ caughtError' = Err("dadosAusente", <<steps[i].key>>, <<>>, i)
               /\ \A k \in DOMAIN trace' : k > Len(trace) => trace'[k].ev = "missing"
        /\ (/\ mapa.operacao # "editar"
            /\ \E n \in DOMAIN steps : steps[n].action = "fill" /\ dados[steps[n].key].kind = "absent")
            => /\ pc' \in {"start", "thrown"}
               /\ pc' = "thrown" => outcome'.err.kind = "absentKeys"
      ]_vars

C21_Witness ==
    /\ mapa.operacao = "editar"
    /\ pc = "steps"
    /\ i = 3
    /\ FillPressPair(1)
    /\ dados[steps[1].key].kind = "absent"
    /\ trace[Len(trace)] = Ev("skip", 1)

----------------------------------------------------------------------------
(* Login validation (SpecLogin) *)

LoginEvents == {"login.username", "login.password", "login.submit"}

\* The map declares login and a selector or a credential value is missing.
LoginUnusable ==
    /\ mapa.login.present
    /\ \/ "" \in {mapa.login.username, mapa.login.password, mapa.login.submit}
       \/ "" \in {loginInfo.usernameValue, loginInfo.passwordValue}

\* C22: a map that declares login with a selector or a credential value
\* missing makes runMapa throw the login error with no session opened and
\* nothing done; a map that declares no login never raises a login error,
\* whatever the credentials, and no login interaction is performed.
C22_LoginValidatedBeforeSession ==
    /\ LoginUnusable
         => /\ pc \in {"start", "thrown"}
            /\ launched = 0
            /\ trace = <<>>
            /\ pc = "thrown" => outcome.err.kind \in {"loginIncomplete", "loginInfoMissing"}
    /\ ~mapa.login.present
         => /\ \A k \in DOMAIN trace : trace[k].ev \notin LoginEvents
            /\ outcome.err.kind \notin {"loginIncomplete", "loginInfoMissing", "loginFailed"}
            /\ caughtError.kind # "loginFailed"

C22_Witness ==
    /\ pc = "thrown"
    /\ mapa.login = Login("#u", "#p", "#s")
    /\ loginInfo.passwordValue = ""
    /\ outcome.err.kind = "loginInfoMissing"
    /\ launched = 0

----------------------------------------------------------------------------
(* Logout failures (Spec) *)

\* C23: once the try block has ended without an error, nothing the logout
\* does makes the run fail: the finally block records no error whether the
\* logout click succeeds or fails, the session is closed, and runMapa returns
\* the result the steps produced.
C23_LogoutFailureInvisible ==
    [][ (caughtError = NoErr /\ pc \in {"finally", "close", "finish"})
          => /\ caughtError' = NoErr
             /\ outcome'.kind # "thrown"
             /\ pc = "finally" => pc' = "close"
             /\ pc = "close" => pc' = "finish"
             /\ pc = "finish"
                  => /\ pc' = "returned"
                     /\ outcome'.kind = "returned"
                     /\ outcome'.resultFound = resultFound
                     /\ outcome'.err = NoErr
      ]_vars

C23_Witness ==
    /\ pc = "returned"
    /\ HasEv("logout.failed")
    /\ Len(steps) = MaxSteps
    /\ i > Len(steps)
    /\ outcome.kind = "returned"

----------------------------------------------------------------------------
(* consultar (SpecConsultar) *)

\* C24: consultar answers with a boolean, true exactly when runMapa returned
\* resultFound true, false when it returned false or null; when runMapa
\* throws, consultar throws the same error.
C24_ConsultarCoercesResult ==
    /\ consultarOut.kind \in {"pending", "returned", "threw"}
    /\ consultarOut.kind = "returned"
         => /\ outcome.kind = "returned"
            /\ consultarOut.result \in {"true", "false"}
            /\ consultarOut.result = "true" <=> outcome.resultFound = "true"
    /\ consultarOut.kind = "threw"
         => /\ outcome.kind = "thrown"
            /\ consultarOut.err = outcome.err
            /\ consultarOut.err # NoErr

C24_Witness ==
    /\ consultarOut.kind = "returned"
    /\ consultarOut.result = "false"
    /\ outcome.resultFound = "null"
    /\ ProbeIdx = {}
    /\ Len(steps) = MaxSteps

----------------------------------------------------------------------------
(* The step index (Spec) *)

\* The interpreter is about to dispatch the fill step of a fill+press pair.
AtPair == pc = "steps" /\ FillPressPair(i) /\ ~steps[i].resultSelector

\* C25: the step index never decreases; when it changes it grows by 1, or by
\* 2 exactly when the step left is the fill of a fill+press pair (typed, or
\* skipped as optional); what is done on the page is done for the step at the
\* index (or, in the probe group, from the index on), so the steps appear in
\* the trace in the order of the map and each at most once.
C25_IndexMovesForward ==
    [][ /\ i' \in {i, i + 1, i + 2}
        /\ i' # i => /\ pc \in {"steps", "dl.uninstall"}
                     /\ pc' = "steps"
                     /\ i \in DOMAIN steps
        /\ i' = i + 2 => /\ AtPair
                         /\ trace' \in {trace \o <<Ev("typeHuman", i), Ev("race", i)>>,
                                        Append(trace, Ev("skip", i))}
        /\ i' = i + 1 => ~AtPair
        /\ \A k \in (Len(trace) + 1)..Len(trace') :
             trace'[k].idx > 0
                => /\ trace'[k].idx = IF pc = "probe" THEN j ELSE i
                   /\ \A l \in DOMAIN trace : trace[l].idx <= trace'[k].idx
                   /\ trace'[k].ev \in StepEvents
                        => \A l \in DOMAIN trace :
                             trace[l].ev \in StepEvents => trace[l].idx < trace'[k].idx
      ]_vars

C25_Witness ==
    /\ pc = "steps"
    /\ Len(steps) = MaxSteps
    /\ i = Len(steps) + 1
    /\ ~FillPressPair(1)
    /\ \A n \in DOMAIN steps :
         \E k \in DOMAIN trace : trace[k].idx = n /\ trace[k].ev \in StepEvents

----------------------------------------------------------------------------
(* Failures abort the run (Spec) *)

----------------------------------------------------------------------------
(* Waits after a fill step (SpecWaits) *)

\* The interpreter is about to dispatch a fill step whose data is given.
AtFillWithData ==
    /\ pc = "steps"
    /\ i \in DOMAIN steps
    /\ ~steps[i].resultSelector
    /\ steps[i].action = "fill"
    /\ dados[steps[i].key].kind \notin {"absent", "undefined"}

\* C27: when a fill step has been carried out, alone or as the combined
\* type-then-press of a pair, the interpreter has waited for a response of
\* meta.expectedUrl if the step sets it and has awaited quiet() if the step
\* sets meta.networkTriggered, before it goes on with the next step.
C27_WaitsAfterFill ==
    [][ (AtFillWithData /\ pc' = "steps")
          => /\ HasMeta(steps[i], "expectedUrl")
                  => \E k \in DOMAIN trace' : k > Len(trace) /\ trace'[k] = Ev("waitForResponse", i)
             /\ HasMeta(steps[i], "networkTriggered")
                  => \E k \in DOMAIN trace' : k > Len(trace) /\ trace'[k] = Ev("quiet", i)
      ]_vars

----------------------------------------------------------------------------
(* Hooks of the download step (SpecDownload) *)

\* C28: when the triggering click of a download step is fired, and from then
\* until the last capture strategy has ended, the interception rule and the
\* popup listener are both installed on the context: the click never
\* precedes either of them.
C28_HooksBeforeClick ==
    /\ pc \in {"dl.click", "dl.main", "dl.popups", "dl.late"}
         => routes > 0 /\ pageListeners > 0
    /\ \A k \in DOMAIN trace :
         (trace[k].ev = "download" /\ trace[k].idx = i /\ pc \in DownloadPcs)
            => routes > 0 /\ pageListeners > 0

C28_Witness ==
    /\ pc = "dl.main"
    /\ trace[Len(trace)] = Ev("download", i)
    /\ popups > 0
    /\ routed.act = "fulfill"
    /\ routes = 1 /\ pageListeners = 1

----------------------------------------------------------------------------
(* Popups of the download step (SpecDownload) *)

\* C29: when a download step ends, by going on to the next step or by
\* throwing, close() has been called on every popup its listener observed.
C29_PopupsClosed ==
    [][ (pc \in DownloadPcs /\ pc' \notin DownloadPcs) => closedPopups = popups ]_vars

----------------------------------------------------------------------------
(* The name of a saved download (SpecCapture) *)

\* The first non-empty name of: the override, the suggested name, the
\* filename / fileName / download parameter of the URL, the last segment of
\* the URL's path.
PreferredName(c) ==
    IF c.desired # <<>> THEN c.desired
    ELSE IF c.suggested # <<>> THEN c.suggested
    ELSE IF FromQS(c.url) # <<>> THEN FromQS(c.url)
    ELSE LastSegment(c.url.noQuery)

\* C30: a captured download is saved under the first non-empty name of the
\* override, the name the browser suggests, the filename, fileName or
\* download parameter of its URL, and the last segment of the URL's path,
\* with the quotes removed and '.pdf' appended when the name lacks it.
C30_SavedNamePriority ==
    (savedName.kind # "pending" /\ capture.url.valid /\ PreferredName(capture) # <<>>)
        => /\ savedName.kind = "returned"
           /\ savedName.name =
                LET n == trim(replaceQuotes(PreferredName(capture)))
                IN IF testPdf(n) THEN n ELSE n \o DotPdf

----------------------------------------------------------------------------
(* Order of the exit (Spec) *)

\* C31: when runMapa has returned or thrown after a session was opened, the
\* last thing done on the session is its closing, preceded, when the map
\* declares logout, by the logout attempt: the caller gets the result or the
\* error only once the session is closed.
C31_LogoutCloseThenOutcome ==
    (pc \in {"returned", "thrown"} /\ launched > 0)
        => /\ trace # <<>>
           /\ trace[Len(trace)].ev = "close"
           /\ mapa.logout # ""
                => /\ Len(trace) > 1
                   /\ trace[Len(trace) - 1].ev \in {"logout", "logout.failed"}

----------------------------------------------------------------------------
(* Malformed steps (SpecPre) *)

\* The first step of the map that lacks an action or a selector, or that is
\* a fill/upload/select step without a key; 0 when there is none.
FirstMalformed ==
    LET bad == {n \in DOMAIN steps :
                  \/ steps[n].selector = "" \/ steps[n].action = ""
                  \/ steps[n].action \in {"fill", "upload", "select"} /\ steps[n].key = ""}
    IN IF bad = {} THEN 0 ELSE Min(bad)

\* C32: a map with a step that lacks an action or a selector, or with a
\* fill/upload/select step that lacks a key, is never run: validation throws
\* with no session opened, and, when the url and the login block are in
\* order, the error is that of the first such step.
C32_MalformedStepRejected ==
    FirstMalformed # 0
        => /\ pc \in {"start", "thrown"}
           /\ launched = 0
           /\ trace = <<>>
           /\ (pc = "thrown" /\ url # "" /\ ValidateLogin = NoErr)
                => /\ outcome.err.kind \in {"invalidStep", "stepNeedsKey"}
                   /\ outcome.err.at = FirstMalformed

C32_Witness ==
    /\ pc = "thrown"
    /\ Len(steps) = MaxPreSteps
    /\ FirstMalformed = Len(steps)
    /\ outcome.err.kind = "stepNeedsKey"
    /\ dados[steps[1].key].kind = "absent"

----------------------------------------------------------------------------
(* openMenuAncestorsFor (SpecMenu) *)

\* The toggles among the first n ancestors of the chain.
TogglesWithin(n) == {a \in 1..n : a <= Len(menuIn.chain) /\ menuIn.chain[a].toggle}

\* C33: a call of openMenuAncestorsFor ends, whatever the length of the
\* chain of ancestors, having examined at most maxHops of them; when it
\* returns, it has hovered exactly the toggles among those it examined, from
\* the outermost to the innermost, clicking the ones that ask for it.
C33_BoundedOutermostFirst ==
    menuOut.kind # "pending"
        => /\ menuOut.examined <= menuIn.maxHops
           /\ menuOut.examined <= Len(menuIn.chain)
           /\ menuOut.kind = "returned"
                => /\ {menuOut.visited[k].anc : k \in DOMAIN menuOut.visited}
                        = TogglesWithin(menuOut.examined)
                   /\ \A k, l \in DOMAIN menuOut.visited :
                        k < l => menuOut.visited[k].anc > menuOut.visited[l].anc
                   /\ \A k \in DOMAIN menuOut.visited :
                        menuOut.visited[k].clicked = menuIn.chain[menuOut.visited[k].anc].shouldClick

C33_Witness ==
    /\ menuOut.kind = "returned"
    /\ menuIn.maxHops = DefaultMaxHops
    /\ Len(menuIn.chain) > DefaultMaxHops
    /\ menuIn.chain[Len(menuIn.chain)].toggle
    /\ menuOut.examined = DefaultMaxHops
    /\ Len(menuOut.visited) >= 2

----------------------------------------------------------------------------
(* Validation against the per-step data checks (Spec) *)

\* C34: on a map of an operation other than 'editar', a run that got past
\* validation never fails at a fill, upload or select step for want of its
\* data: what `key in dados` accepts, `dados[key] !== undefined` accepts.
C34_ValidatedDataNeverMissing ==
    mapa.operacao # "editar"
        => caughtError.kind # "dadosAusente"

----------------------------------------------------------------------------
(* The reported path against what was written (SpecDownload) *)

\* C35: whenever the run returns a non-null downloadedPath, the capture
\* that produced that path was written to disk there: a saveAs that failed
\* never yields a reported path.
C35_ReportedPathWasWritten ==
    (outcome.kind = "returned" /\ outcome.downloadedPath # 0)
        => Pos("dl.saved", outcome.downloadedPath) # {}

----------------------------------------------------------------------------
(* The flagged steps are probed only (Spec) *)

\* Step n had its action dispatched: an interaction event of its own, or
\* the combined interaction of the fill before it came to its end (the race
\* that follows it was reached), and that interaction presses the key of n.
Dispatched(n) ==
    \E k \in DOMAIN trace :
        \/ trace[k].ev \in StepEvents \ {"skip", "missing"} /\ trace[k].idx = n
        \/ trace[k].ev = "race" /\ trace[k].idx + 1 = n

\* C36: a step flagged resultSelector is only probed for attachment, its
\* action is never dispatched; the probing stops at the first locator that
\* attaches, so resultFound never goes from true back to false.
C36_FlaggedStepOnlyProbed ==
    /\ [](\A n \in ProbeIdx : ~Dispatched(n))
    /\ [][resultFound = "true" => resultFound' = "true"]_vars

----------------------------------------------------------------------------
(* The resolution of an intercepted request (SpecRoute) *)

\* The fulfill and continue calls that resolved the request.
Resolutions ==
    {k \in DOMAIN routeOut.calls :
        routeOut.calls[k].op \in {"fulfill", "continue"} /\ routeOut.calls[k].ok}

\* C37 as stated: every intercepted request is resolved exactly once, by a
\* fulfill or by a continue, on every path of the handler.
C37_ResolvedExactlyOnce ==
    routeOut.kind = "done" => Cardinality(Resolutions) = 1

\* C37: an intercepted request is resolved at most once, never fulfilled
\* and continued both, and the resolving call is the handler's last one; it
\* is left unresolved only when the last route.continue() of the handler
\* rejected, and errors of fetch, body and fulfill alone never leave it so.
C37_ResolvedOnceUnlessContinueRejects ==
    routeOut.kind = "done" =>
        LET calls == routeOut.calls
            last  == calls[Len(calls)]
        IN /\ Cardinality(Resolutions) <= 1
           /\ Resolutions # {} => Resolutions = {Len(calls)}
           /\ Resolutions = {} => last = Call("continue", FALSE)
           /\ routeIn.cont1 => Cardinality(Resolutions) = 1
           /\ routeOut.rejected => routeIn.done /\ Resolutions = {}

C37_Witness ==
    /\ routeOut.kind = "done"
    /\ routeOut.calls = <<Call("fetch", TRUE), Call("body", TRUE), Call("fulfill", FALSE),
                          Call("continue", TRUE)>>
    /\ Resolutions = {4}

----------------------------------------------------------------------------
(* The session of inserir (SpecInserir) *)

\* C38: on every exit of inserir after the browser was launched, closeAll
\* has run and nothing is left open; a failure leaves with the error that
\* caused it; on success the answer is ok, given after every step ran and
\* the session was closed.
C38_InserirAlwaysCloses ==
    (ins.pc \in {"returned", "thrown"} /\ ins.err # "launch")
        => /\ ins.closeCalls = 1
           /\ ~ins.browser /\ ~ins.context
           /\ ins.pc = "thrown" => ins.err # "" /\ ins.out = ""
           /\ ins.pc = "returned" => /\ ins.out = "ok"
                                     /\ ins.err = ""
                                     /\ ins.ran = DOMAIN ins.steps

----------------------------------------------------------------------------
(* The handles of the extended click (SpecHandle) *)

\* C39: the extended click never evaluates or clicks a handle that was
\* disposed: the handle getClickableHandleFrom returns is live, when an
\* ancestor matches and when none does and the given handle comes back.
C39_NoUseAfterDispose ==
    handleOut.kind # "pending"
        => /\ handleOut.ret \notin handleOut.disposed
           /\ \A k \in DOMAIN handleOut.used : handleOut.used[k] \notin handleOut.disposed

----------------------------------------------------------------------------
(* The clicks of one robustClick (SpecClick) *)

\* The successful clicks of the call: the direct one of line 679 and those
\* of the walk.
GoodClicks ==
    (IF clickOut.clicked = -1 THEN {0} ELSE {})
        \cup {k \in DOMAIN clickOut.tried : clickIn.chain[clickOut.tried[k]].clickOk}

\* C40: one call of robustClick makes at most one successful click: after
\* the direct click nothing else is tried, a successful click on a visible
\* ancestor is the last one tried, a failing one is followed by the next
\* visible ancestor, and the walk stays within the chain up to its root.
C40_AtMostOneGoodClick ==
    clickOut.kind = "returned" =>
        LET tried == clickOut.tried
            chain == clickIn.chain
        IN /\ Cardinality(GoodClicks) <= 1
           /\ clickOut.clicked = -1 => tried = <<>>
           /\ \A k \in DOMAIN tried :
                /\ tried[k] \in DOMAIN chain
                /\ chain[tried[k]].visible
                /\ chain[tried[k]].clickOk => k = Len(tried) /\ clickOut.clicked = tried[k]
                /\ k > 1 => tried[k - 1] < tried[k]
           /\ clickOut.clicked # -1 =>
                \A n \in DOMAIN chain :
                    (chain[n].visible /\ \A m \in 1..(n - 1) : ~(chain[m].visible /\ chain[m].clickOk))
                        => \E k \in DOMAIN tried : tried[k] = n
           /\ Len(tried) <= Len(chain)

C40_Witness ==
    /\ clickOut.kind = "returned"
    /\ clickIn.chain = <<El(TRUE, FALSE), El(TRUE, TRUE)>>
    /\ clickOut.tried = <<1, 2>>
    /\ clickOut.clicked = 2

====
